---- MODULE Spec2Model ----
(***************************************************************************)
(* A model of the vpk0 codec: the bit-level container (format.rs), the     *)
(* decoder (decode.rs), the LZSS pass (encode/lzss.rs), the Huffman        *)
(* builder and tree-text parser (encode/huffman.rs) and the encoder        *)
(* pipeline (encode.rs).                                                   *)
(*                                                                         *)
(* Bytes are integers 0..255, bit streams are sequences of 0/1 (first bit  *)
(* read first, most significant bit of a value first), Rust indices are    *)
(* kept 0-based: entry i of a Rust Vec v is v[i + 1] here.                 *)
(***************************************************************************)
EXTENDS Integers, Sequences, FiniteSets, TLC

VARIABLES
  opts, input, rdr, dict, pass, maps, wtr, enc_result, pc, artifact, log,
  src, fuel, info, output, dec_result, last, dlog, ret,
  tree, text, parsed,
  offset, sample, move_back

encVars == <<opts, input, rdr, dict, pass, maps, wtr, enc_result, pc, artifact, log>>
decVars == <<src, fuel, info, output, dec_result, last, dlog, ret>>
treeVars == <<tree, text, parsed>>
twoVars == <<offset, sample, move_back>>
vars == <<encVars, decVars, treeVars, twoVars>>

-----------------------------------------------------------------------------
(* Rust's Option and Result, and a panic (abort) as a third outcome.       *)

None == [kind |-> "None"]
Some(v) == [kind |-> "Some", val |-> v]
Ok(v) == [kind |-> "Ok", val |-> v]
Err(e) == [kind |-> "Err", err |-> e]
Panic(m) == [kind |-> "Panic", msg |-> m]

(* errors.rs: VpkError and EncodeTreeParseErr *)
InvalidHeader(s) == [kind |-> "InvalidHeader", name |-> s]
InvalidMethod(n) == [kind |-> "InvalidMethod", method |-> n]
BadLookBack(mb, size) == [kind |-> "BadLookBack", mb |-> mb, size |-> size]
BadTreeEncoding == [kind |-> "BadTreeEncoding"]
BadUserTree(e) == [kind |-> "BadUserTree", source |-> e]
Utf8Error == [kind |-> "Utf8Error"]
Io == [kind |-> "Io"]
LexNum(p) == [kind |-> "LexNum", pos |-> p]
LexUnexp(c, p) == [kind |-> "LexUnexp", char |-> c, pos |-> p]
ParseUnexp(s, p) == [kind |-> "ParseUnexp", token |-> s, pos |-> p]
ParseUnexpEnd == [kind |-> "ParseUnexpEnd"]

-----------------------------------------------------------------------------
(* A log sink, LogWtr = &mut dyn Write.  room is the number of writeln!    *)
(* calls the sink still accepts, below 0 for a sink that accepts every     *)
(* write (a Vec, a terminal); lines counts the calls it has accepted.      *)

Sink(room) == Some([room |-> room, lines |-> 0])

(* n writeln! calls in a row on the sink, if one is attached, up to the    *)
(* first that fails                                                        *)
log_lines(lg, n) ==
  IF lg = None \/ n = 0 THEN [log |-> lg, ok |-> TRUE]
  ELSE IF lg.val.room < 0
    THEN [log |-> Some([lg.val EXCEPT !.lines = @ + n]), ok |-> TRUE]
  ELSE IF lg.val.room >= n
    THEN [log |-> Some([room |-> lg.val.room - n, lines |-> lg.val.lines + n]),
          ok |-> TRUE]
  ELSE [log |-> Some([room |-> 0, lines |-> lg.val.lines + lg.val.room]),
        ok |-> FALSE]

-----------------------------------------------------------------------------
(* Big-endian bit reader and writer (bitstream_io, BigEndian).             *)

Min(a, b) == IF a < b THEN a ELSE b
Max(a, b) == IF a > b THEN a ELSE b

RECURSIVE ToBits(_, _)
ToBits(n, v) == IF n = 0 THEN <<>> ELSE Append(ToBits(n - 1, v \div 2), v % 2)

RECURSIVE FromBits(_)
FromBits(bs) ==
  IF bs = <<>> THEN 0
  ELSE 2 * FromBits(SubSeq(bs, 1, Len(bs) - 1)) + bs[Len(bs)]

RECURSIVE BytesToBits(_)
BytesToBits(bytes) ==
  IF bytes = <<>> THEN <<>> ELSE ToBits(8, Head(bytes)) \o BytesToBits(Tail(bytes))

RECURSIVE BitsToBytes(_)
BitsToBytes(bits) ==
  IF Len(bits) < 8 THEN <<>>
  ELSE <<FromBits(SubSeq(bits, 1, 8))>> \o BitsToBytes(SubSeq(bits, 9, Len(bits)))

(* A read leaves the rest of the stream; a short read is an Io error. *)
Got(v, rest) == [kind |-> "Ok", val |-> v, rest |-> rest]

read_bit(bits) ==
  IF Len(bits) < 1 THEN Err(Io) ELSE Got(bits[1] = 1, Tail(bits))

read(n, bits) ==
  IF Len(bits) < n THEN Err(Io)
  ELSE Got(FromBits(SubSeq(bits, 1, n)), SubSeq(bits, n + 1, Len(bits)))

read_bytes(n, bits) ==
  IF Len(bits) < 8 * n THEN Err(Io)
  ELSE Got(BitsToBytes(SubSeq(bits, 1, 8 * n)), SubSeq(bits, 8 * n + 1, Len(bits)))

write_bit(b) == <<IF b THEN 1 ELSE 0>>
write(n, v) == ToBits(n, v)
write_bytes(bytes) == BytesToBits(bytes)

(* byte_align: pad with zero bits up to the next byte boundary *)
byte_align(bits) == bits \o [i \in 1..((8 - (Len(bits) % 8)) % 8) |-> 0]

-----------------------------------------------------------------------------
(* format.rs: VpkHeader *)

Magic == <<118, 112, 107, 48>>

Cont(b) == b >= 128 /\ b <= 191

(* str::from_utf8 on a byte slice: well-formed UTF-8 only *)
RECURSIVE IsUtf8(_)
IsUtf8(b) ==
  IF b = <<>> THEN TRUE
  ELSE IF b[1] < 128 THEN IsUtf8(Tail(b))
  ELSE IF b[1] >= 194 /\ b[1] <= 223
    THEN Len(b) >= 2 /\ Cont(b[2]) /\ IsUtf8(SubSeq(b, 3, Len(b)))
  ELSE IF b[1] >= 224 /\ b[1] <= 239
    THEN /\ Len(b) >= 3
         /\ Cont(b[2]) /\ Cont(b[3])
         /\ (b[1] = 224 => b[2] >= 160)
         /\ (b[1] = 237 => b[2] <= 159)
         /\ IsUtf8(SubSeq(b, 4, Len(b)))
  ELSE IF b[1] >= 240 /\ b[1] <= 244
    THEN /\ Len(b) >= 4
         /\ Cont(b[2]) /\ Cont(b[3]) /\ Cont(b[4])
         /\ (b[1] = 240 => b[2] >= 144)
         /\ (b[1] = 244 => b[2] <= 143)
         /\ IsUtf8(SubSeq(b, 5, Len(b)))
  ELSE FALSE

u32_from_be_bytes(b) == ((b[1] * 256 + b[2]) * 256 + b[3]) * 256 + b[4]

(* from_array with the method byte looked at before the magic *)
from_array_method_first(arr) ==
  LET name == SubSeq(arr, 1, 4) IN
  IF arr[9] > 1 THEN Err(InvalidMethod(arr[9]))
  ELSE IF ~IsUtf8(name) THEN Err(Utf8Error)
  ELSE IF name # Magic THEN Err(InvalidHeader(name))
  ELSE Ok([size |-> u32_from_be_bytes(SubSeq(arr, 5, 8)),
           method |-> IF arr[9] = 0 THEN "OneSample" ELSE "TwoSample"])

from_array(arr) ==
  LET name == SubSeq(arr, 1, 4) IN
  IF ~IsUtf8(name) THEN Err(Utf8Error)
  ELSE IF name # Magic THEN Err(InvalidHeader(name))
  ELSE LET size == u32_from_be_bytes(SubSeq(arr, 5, 8)) IN
       CASE arr[9] = 0 -> Ok([size |-> size, method |-> "OneSample"])
         [] arr[9] = 1 -> Ok([size |-> size, method |-> "TwoSample"])
         [] OTHER -> Err(InvalidMethod(arr[9]))

(* Reads nine bytes, then parses them; the result keeps the rest of the stream. *)
VpkHeader_from_bitreader(bits) ==
  LET header == read_bytes(9, bits) IN
  IF header.kind = "Err" THEN header
  ELSE LET h == from_array(header.val) IN
       IF h.kind = "Err" THEN [h EXCEPT !.kind = "Err"] @@ [rest |-> header.rest]
       ELSE Got(h.val, header.rest)

VpkHeader_write(hdr) ==
  write_bytes(Magic) \o write(32, hdr.size)
    \o write(8, IF hdr.method = "OneSample" THEN 0 ELSE 1)

-----------------------------------------------------------------------------
(* format.rs: TreeEntry and VpkTree (a Vec<TreeEntry>, the root last) *)

Leaf(v) == [kind |-> "Leaf", val |-> v]
Node(l, r) == [kind |-> "Node", left |-> l, right |-> r]

VpkTree_empty == <<>>

RECURSIVE from_bitreader_loop(_, _, _)
from_bitreader_loop(bits, entries, buf) ==
  LET new_entry_idx == Len(entries)
      b == read_bit(bits)
  IN IF b.kind = "Err" THEN b
     ELSE IF b.val
       THEN IF Len(buf) < 2 THEN Got(entries, b.rest)
            ELSE from_bitreader_loop(
                   b.rest,
                   Append(entries, Node(buf[Len(buf) - 1], buf[Len(buf)])),
                   Append(SubSeq(buf, 1, Len(buf) - 2), new_entry_idx))
       ELSE LET v == read(8, b.rest) IN
            IF v.kind = "Err" THEN v
            ELSE from_bitreader_loop(v.rest, Append(entries, Leaf(v.val)),
                                     Append(buf, new_entry_idx))

VpkTree_from_bitreader(bits) == from_bitreader_loop(bits, <<>>, <<>>)

(* one pass through the body of the loop of from_bitreader: the loop goes  *)
(* on with a longer array, breaks with the array, or fails on a short read *)
Loop(entries, buf, rest) ==
  [kind |-> "Loop", entries |-> entries, buf |-> buf, rest |-> rest]

from_bitreader_iter_three(bits, entries, buf) ==
  LET new_entry_idx == Len(entries)
      b == read_bit(bits)
  IN IF b.kind = "Err" THEN b
     ELSE IF b.val
       THEN IF Len(buf) < 3 THEN Got(entries, b.rest)
            ELSE Loop(Append(entries, Node(buf[Len(buf) - 1], buf[Len(buf)])),
                      Append(SubSeq(buf, 1, Len(buf) - 2), new_entry_idx),
                      b.rest)
       ELSE LET v == read(8, b.rest) IN
            IF v.kind = "Err" THEN v
            ELSE Loop(Append(entries, Leaf(v.val)), Append(buf, new_entry_idx),
                      v.rest)

from_bitreader_iter(bits, entries, buf) ==
  LET new_entry_idx == Len(entries)
      b == read_bit(bits)
  IN IF b.kind = "Err" THEN b
     ELSE IF b.val
       THEN IF Len(buf) < 2 THEN Got(entries, b.rest)
            ELSE Loop(Append(entries, Node(buf[Len(buf) - 1], buf[Len(buf)])),
                      Append(SubSeq(buf, 1, Len(buf) - 2), new_entry_idx),
                      b.rest)
       ELSE LET v == read(8, b.rest) IN
            IF v.kind = "Err" THEN v
            ELSE Loop(Append(entries, Leaf(v.val)), Append(buf, new_entry_idx),
                      v.rest)

RECURSIVE read_value_walk(_, _, _)
read_value_walk(tbl, idx, bits) ==
  IF tbl[idx + 1].kind = "Node"
  THEN LET b == read_bit(bits) IN
       IF b.kind = "Err" THEN b
       ELSE read_value_walk(tbl, IF b.val THEN tbl[idx + 1].right ELSE tbl[idx + 1].left,
                            b.rest)
  ELSE IF tbl[idx + 1].kind = "Leaf" THEN read(tbl[idx + 1].val, bits)
  ELSE Err(BadTreeEncoding)

(* a lookup that yields 0 through a tree without a node, reading nothing *)
read_value_zero(t, bits) ==
  IF Len(t) <= 1 THEN Got(0, bits) ELSE read_value_walk(t, Len(t) - 1, bits)

read_value(t, bits) ==
  IF Len(t) = 0 THEN Got(0, bits) ELSE read_value_walk(t, Len(t) - 1, bits)

RECURSIVE VpkTree_write_entries(_)
VpkTree_write_entries(entries) ==
  IF entries = <<>> THEN <<>>
  ELSE (IF Head(entries).kind = "Leaf"
        THEN write_bit(FALSE) \o write(8, Head(entries).val)
        ELSE write_bit(TRUE)) \o VpkTree_write_entries(Tail(entries))

(* a writer that leaves out the bit that ends the tree *)
VpkTree_write_open(t) == VpkTree_write_entries(t)

VpkTree_write(t) == VpkTree_write_entries(t) \o write_bit(TRUE)

(* fmt::Display: text is a sequence of one-character strings *)
Digits == <<"0", "1", "2", "3", "4", "5", "6", "7", "8", "9">>

RECURSIVE fmt_u8(_)
fmt_u8(v) ==
  IF v < 10 THEN <<Digits[v + 1]>> ELSE Append(fmt_u8(v \div 10), Digits[(v % 10) + 1])

RECURSIVE format_entry(_, _)
format_entry(t, entry) ==
  IF t[entry + 1].kind = "Leaf" THEN fmt_u8(t[entry + 1].val)
  ELSE <<"(">> \o format_entry(t, t[entry + 1].left) \o <<",", " ">>
         \o format_entry(t, t[entry + 1].right) \o <<")">>

VpkTree_fmt(t) == IF Len(t) = 0 THEN <<"(", ")">> ELSE format_entry(t, Len(t) - 1)

-----------------------------------------------------------------------------
(* decode.rs: Decoder { src, log, info } and do_decode                     *)

RestOf(r, bits) == IF "rest" \in DOMAIN r THEN r.rest ELSE <<>>

(* a get_file_info that reads the stream on every call *)
get_file_info_uncached(s, inf) ==
  LET hdr == VpkHeader_from_bitreader(s) IN
  IF hdr.kind = "Err"
  THEN [res |-> Err(hdr.err), src |-> RestOf(hdr, s), info |-> inf]
  ELSE
    LET offsets == VpkTree_from_bitreader(hdr.rest) IN
    IF offsets.kind = "Err"
    THEN [res |-> Err(offsets.err), src |-> <<>>, info |-> inf]
    ELSE
      LET lengths == VpkTree_from_bitreader(offsets.rest) IN
      IF lengths.kind = "Err"
      THEN [res |-> Err(lengths.err), src |-> <<>>, info |-> inf]
      ELSE LET i == [hdr |-> hdr.val, offsets |-> offsets.val, lengths |-> lengths.val]
           IN [res |-> Ok(i), src |-> lengths.rest, info |-> Some(i)]

(* Decoder::get_file_info: the header and both trees are read once and kept *)
get_file_info(s, inf) ==
  IF inf.kind = "Some" THEN [res |-> Ok(inf.val), src |-> s, info |-> inf]
  ELSE
    LET hdr == VpkHeader_from_bitreader(s) IN
    IF hdr.kind = "Err"
    THEN [res |-> Err(hdr.err), src |-> RestOf(hdr, s), info |-> inf]
    ELSE
      LET offsets == VpkTree_from_bitreader(hdr.rest) IN
      IF offsets.kind = "Err"
      THEN [res |-> Err(offsets.err), src |-> <<>>, info |-> inf]
      ELSE
        LET lengths == VpkTree_from_bitreader(offsets.rest) IN
        IF lengths.kind = "Err"
        THEN [res |-> Err(lengths.err), src |-> <<>>, info |-> inf]
        ELSE LET i == [hdr |-> hdr.val, offsets |-> offsets.val, lengths |-> lengths.val]
             IN [res |-> Ok(i), src |-> lengths.rest, info |-> Some(i)]

(* usize arithmetic: a value below 0 stands for that value + 2^64, the     *)
(* result of a wrapping subtraction; it is greater than every length.      *)
UsizeGt(a, b) == IF a < 0 THEN TRUE ELSE a > b

(* move_back of a back-reference from the offset component(s) *)
two_sample_move_back(initial_move, u) ==
  IF initial_move < 3 THEN ((initial_move + 1) + (u * 4)) - 8
  ELSE (initial_move * 4) - 8

(* if move_back > output.len() { return Err(BadLookBack(move_back, output.len())) } *)
look_back_check_swapped(mb, out) ==
  IF UsizeGt(mb, Len(out)) THEN Some(BadLookBack(Len(out), mb)) ELSE None

look_back_check(mb, out) ==
  IF UsizeGt(mb, Len(out)) THEN Some(BadLookBack(mb, Len(out))) ELSE None

(* a copy that keeps reading the first source byte *)
copy_back_fixed(out, i, end) ==
  IF i >= end THEN Ok(out)
  ELSE IF i >= Len(out) THEN Panic("index out of bounds")
  ELSE Ok(out \o [k \in 1..(end - i) |-> out[i + 1]])

(* for i in start..start + size { output.push(output[i]) } *)
RECURSIVE copy_back(_, _, _)
copy_back(out, i, end) ==
  IF i >= end THEN Ok(out)
  ELSE IF i >= Len(out) THEN Panic("index out of bounds")
  ELSE copy_back(Append(out, out[i + 1]), i + 1, end)

NoToken == [token |-> "None"]
Continue == [kind |-> "Continue"]

(* a loop body that leaves a back-reference of length 0 in the stream *)
decode_iter_stuck(hdr, offsets, lengths, s, out, overflow_checks) ==
  LET b == read_bit(s)
      fail(r) == [res |-> r, src |-> <<>>, output |-> out, last |-> NoToken]
      coded(mb, rd) ==
        IF rd.kind = "Err" THEN fail(Err(rd.err))
        ELSE IF rd.val = 0
        THEN [res |-> Continue, src |-> s, output |-> out,
              last |-> [token |-> "Encoded", move_back |-> mb, have |-> Len(out),
                        size |-> Some(0)]]
        ELSE fail(Err(Io))
  IN
  IF b.kind = "Err" THEN fail(Err(b.err))
  ELSE IF b.val THEN
    LET im == read_value(offsets, b.rest) IN
    IF im.kind = "Err" \/ hdr.method = "TwoSample" \/ im.val > Len(out)
    THEN fail(Err(Io))
    ELSE coded(im.val, read_value(lengths, im.rest))
  ELSE
    LET byte == read(8, b.rest) IN
    IF byte.kind = "Err" THEN fail(Err(byte.err))
    ELSE [res |-> Continue, src |-> byte.rest, output |-> Append(out, byte.val),
          last |-> [token |-> "Uncoded", byte |-> byte.val, have |-> Len(out)]]

(* One iteration of the while loop of do_decode.  overflow_checks tells    *)
(* whether the build panics on arithmetic overflow or wraps.               *)
decode_iter(hdr, offsets, lengths, s, out, overflow_checks) ==
  LET b == read_bit(s)
      fail(r, l) == [res |-> r, src |-> <<>>, output |-> out, last |-> l]
  IN
  IF b.kind = "Err" THEN fail(Err(b.err), NoToken)
  ELSE IF b.val THEN
    LET im == read_value(offsets, b.rest) IN
    IF im.kind = "Err" THEN fail(Err(im.err), NoToken)
    ELSE
      LET initial_move == im.val
          two == hdr.method = "TwoSample" /\ initial_move < 3
          u == IF two THEN read_value(offsets, im.rest) ELSE Got(0, im.rest)
      IN
      IF u.kind = "Err" THEN fail(Err(u.err), NoToken)
      ELSE
        LET mb == IF hdr.method = "TwoSample"
                  THEN two_sample_move_back(initial_move, u.val)
                  ELSE initial_move
            tok == [token |-> "Encoded", move_back |-> mb, have |-> Len(out),
                    size |-> None]
        IN
        IF mb < 0 /\ overflow_checks
        THEN fail(Panic("attempt to subtract with overflow"), NoToken)
        ELSE IF look_back_check(mb, out).kind = "Some"
        THEN [res |-> Err(look_back_check(mb, out).val), src |-> u.rest,
              output |-> out, last |-> tok]
        ELSE
          LET start == Len(out) - mb
              size == read_value(lengths, u.rest)
          IN
          IF size.kind = "Err" THEN fail(Err(size.err), tok)
          ELSE
            LET copied == copy_back(out, start, start + size.val)
                tk == [tok EXCEPT !.size = Some(size.val)]
            IN
            IF copied.kind = "Panic"
            THEN [res |-> copied, src |-> size.rest, output |-> out, last |-> tk]
            ELSE [res |-> Continue, src |-> size.rest, output |-> copied.val,
                  last |-> tk]
  ELSE
    LET byte == read(8, b.rest) IN
    IF byte.kind = "Err" THEN fail(Err(byte.err), NoToken)
    ELSE [res |-> Continue, src |-> byte.rest, output |-> Append(out, byte.val),
          last |-> [token |-> "Uncoded", byte |-> byte.val, have |-> Len(out)]]

NotStarted == [kind |-> "NotStarted"]
Running == [kind |-> "Running"]

(* while output.len() < output_size { .. }; Ok(output) *)
LoopExit(hdr, out) == IF Len(out) < hdr.size THEN Running ELSE Ok(out)

(* the writeln! calls of one iteration of the loop of do_decode that come  *)
(* before its outcome it: one per offset read in two-sample mode, one      *)
(* after the length is read and one after the copy, or one for a literal   *)
decode_log_lines(hdr, it) ==
  LET two == IF hdr.method = "TwoSample" THEN 1 ELSE 0 IN
  IF it.last.token = "Uncoded" THEN 1
  ELSE IF it.last.token = "Encoded"
    THEN IF it.last.size = None THEN two
         ELSE IF it.res = Continue THEN two + 2 ELSE two + 1
  ELSE IF it.res.kind = "Panic" THEN two
  ELSE 0

(* do_decode up to the first test of the loop condition, with the log sink *)
(* lg: the header and the trees are logged in six writeln! calls           *)
decode_start(s, inf, lg) ==
  LET logged(fi, lw) ==
        [src |-> fi.src, info |-> fi.info, log |-> lw.log,
         res |-> IF fi.res.kind = "Err" THEN fi.res
                 ELSE IF ~lw.ok THEN Err(Io)
                 ELSE LoopExit(fi.res.val.hdr, <<>>)]
      got(fi) == logged(fi, log_lines(lg, IF fi.res.kind = "Err" THEN 0 ELSE 6))
  IN got(get_file_info(s, inf))

(* Decoder::decode up to the first test of the loop condition *)
DecodeStart ==
  /\ dec_result = NotStarted
  /\ \E st \in {decode_start(src, info, dlog)} :
       /\ src' = st.src
       /\ info' = st.info
       /\ dlog' = st.log
       /\ dec_result' = st.res
  /\ output' = <<>>
  /\ last' = NoToken
  /\ UNCHANGED <<fuel, ret, encVars, treeVars, twoVars>>

(* One iteration of the loop; more holds the bits the reader yields next, *)
(* beyond those already in src.                                           *)
decode_step(i, s, out, overflow_checks, lg) ==
  LET logged(it, lw) ==
        [src |-> it.src, last |-> it.last, log |-> lw.log,
         output |-> IF lw.ok THEN it.output ELSE out,
         res |-> IF ~lw.ok THEN Err(Io)
                 ELSE IF it.res = Continue THEN LoopExit(i.hdr, it.output)
                 ELSE it.res]
      ran(it) == logged(it, log_lines(lg, decode_log_lines(i.hdr, it)))
  IN ran(decode_iter(i.hdr, i.offsets, i.lengths, s, out, overflow_checks))

DecodeStepOn(more) ==
  /\ dec_result = Running
  /\ \E overflow_checks \in BOOLEAN :
       \E st \in {decode_step(info.val, src \o more, output, overflow_checks, dlog)} :
          /\ src' = st.src
          /\ output' = st.output
          /\ last' = st.last
          /\ dlog' = st.log
          /\ dec_result' = st.res
  /\ UNCHANGED <<info, ret, encVars, treeVars, twoVars>>

(* From<&RawTrees> for TreeInfo: both trees as text *)
TreeInfo_from(i) ==
  [offsets |-> VpkTree_fmt(i.offsets), lengths |-> VpkTree_fmt(i.lengths)]

(* Decoder::header: self.get_file_info().map(|(hdr, _)| *hdr); ret is the  *)
(* value the last call of header() or trees() returned                     *)
Header ==
  /\ dec_result = NotStarted
  /\ \E fi \in {get_file_info(src, info)} :
       /\ src' = fi.src
       /\ info' = fi.info
       /\ ret' = IF fi.res.kind = "Ok" THEN Ok(fi.res.val.hdr) ELSE fi.res
  /\ UNCHANGED <<fuel, output, dec_result, last, dlog, encVars, treeVars, twoVars>>

(* Decoder::trees: self.get_file_info().map(|(_, t)| t.into()) *)
Trees ==
  /\ dec_result = NotStarted
  /\ \E fi \in {get_file_info(src, info)} :
       /\ src' = fi.src
       /\ info' = fi.info
       /\ ret' = IF fi.res.kind = "Ok" THEN Ok(TreeInfo_from(fi.res.val)) ELSE fi.res
  /\ UNCHANGED <<fuel, output, dec_result, last, dlog, encVars, treeVars, twoVars>>

DecodeStep == DecodeStepOn(<<>>) /\ UNCHANGED fuel

-----------------------------------------------------------------------------
(* encode/lzss.rs: LzssSettings *)

LzssSettings_default == [offset_bits |-> 16, length_bits |-> 8, max_uncoded |-> 2]

RECURSIVE Shl1(_)
Shl1(n) == IF n = 0 THEN 1 ELSE 2 * Shl1(n - 1)

window_size(settings) == Shl1(settings.offset_bits) - 1
max_encoded(settings) == Shl1(settings.length_bits) - 1

(* encode.rs: count_needed_bits, the bit width of val (0 for 0) *)
RECURSIVE count_needed_bits(_)
count_needed_bits(val) == IF val = 0 THEN 0 ELSE 1 + count_needed_bits(val \div 2)

(* encode.rs: TwoSample::from *)
TwoSample_LIMIT == 4

One(o) == [kind |-> "One", offset |-> o]
Two(f, sec) == [kind |-> "Two", first |-> f, second |-> sec]

(* a split without the bias of 8 *)
TwoSample_from_unbiased(v) ==
  IF v % TwoSample_LIMIT # 0 THEN Two((v % TwoSample_LIMIT) - 1, v \div TwoSample_LIMIT)
  ELSE One(v \div TwoSample_LIMIT)

TwoSample_from(v) ==
  LET val == v + 8
      quot == val \div TwoSample_LIMIT
      rem == val % TwoSample_LIMIT
  IN IF rem # 0 THEN Two(rem - 1, quot) ELSE One(quot)

(* io::Read: a reader yields at most chunk bytes per call (0: no such limit) *)
rdr_read(r, n) ==
  LET k == IF r.chunk = 0 THEN Min(n, Len(r.data))
           ELSE Min(Min(n, Len(r.data)), r.chunk)
  IN [n |-> k, bytes |-> SubSeq(r.data, 1, k),
      rdr |-> [r EXCEPT !.data = SubSeq(r.data, k + 1, Len(r.data))]]

(* encode/lzss.rs: SlidingDict *)
MAX_AHEAD_CHECK == 10
MAX_PEEK == MAX_AHEAD_CHECK

SlidingDict_new(r, settings) ==
  LET window == window_size(settings)
      lookahead == max_encoded(settings)
      max_ahead == lookahead + MAX_PEEK
      built(got) ==
        [dict |-> [window |-> window, lookahead |-> lookahead,
                   buf_size |-> window + lookahead, max_ahead |-> max_ahead,
                   csr |-> 0, buf |-> got.bytes,
                   more_to_read |-> got.n >= max_ahead, total_read |-> got.n],
         rdr |-> got.rdr]
  IN built(rdr_read(r, max_ahead))

ahead(d) == SubSeq(d.buf, d.csr + 1, Min(Len(d.buf), d.buf_size))

offset_csr(d, n) ==
  LET offset_end == Min(Len(d.buf), d.buf_size + n)
      w_end == d.csr + n
      w_start == Max(w_end - d.window, 0)
  IN [ahead |-> SubSeq(d.buf, w_end + 1, offset_end),
      behind |-> SubSeq(d.buf, w_start + 1, w_end),
      full |-> SubSeq(d.buf, w_start + 1, offset_end)]

next_uncoded_byte(d) == IF ahead(d) = <<>> THEN None ELSE Some(Head(ahead(d)))

remaining(d) == Len(ahead(d))

(* the read loop of advance_by: fill `want` bytes or stop at a read of 0 *)
RECURSIVE read_fill(_, _, _)
read_fill(r, want, acc) ==
  LET after(got) ==
        IF got.n = 0 THEN [bytes |-> acc, rdr |-> r]
        ELSE read_fill(got.rdr, want - got.n, acc \o got.bytes)
  IN IF want = 0 THEN [bytes |-> acc, rdr |-> r] ELSE after(rdr_read(r, want))

advance_by(d, r, n) ==
  LET p == d.csr + n
      new_csr == Min(p, d.window)
      excess == Max(p - d.window, 0)
      drained == SubSeq(d.buf, excess + 1, Len(d.buf))
      refilled(fill) ==
        [dict |-> [d EXCEPT !.buf = drained \o fill.bytes,
                            !.csr = new_csr,
                            !.total_read = d.total_read + Len(fill.bytes),
                            !.more_to_read = ~(Len(fill.bytes) < n
                                               \/ Len(fill.bytes) = 0)],
         rdr |-> fill.rdr]
  IN IF d.more_to_read THEN refilled(read_fill(r, n, <<>>))
     ELSE [dict |-> [d EXCEPT !.buf = drained, !.csr = new_csr], rdr |-> r]

(* encode/lzss.rs: the match finders *)
MoveBack_new(size, mb) == [size |-> size, moveback |-> mb]

(* src.iter().zip(dst).take_while(|(s, d)| s == d).count() *)
RECURSIVE common_prefix(_, _)
common_prefix(a, b) ==
  IF a = <<>> \/ b = <<>> THEN 0
  ELSE IF Head(a) # Head(b) THEN 0
  ELSE 1 + common_prefix(Tail(a), Tail(b))

(* a fold that keeps the earlier of two matches of one length *)
brute_best_first(best, cur) ==
  IF best.kind = "Some" /\ best.val.size >= cur.size THEN best ELSE Some(cur)

(* the closure of the fold: the earlier match is kept when it is longer *)
brute_best(best, cur) ==
  IF best.kind = "Some"
     /\ (best.val.size > cur.size \/ best.val.moveback < cur.moveback)
  THEN best ELSE Some(cur)

(* the closure of filter_map, then the fold *)
brute_candidate(best, length, moveback, shortest_match) ==
  IF length >= shortest_match THEN brute_best(best, MoveBack_new(length, moveback))
  ELSE best

RECURSIVE brute_fold(_, _, _, _, _)
brute_fold(bufs, i, best, longest_match, shortest_match) ==
  IF i >= Len(bufs.behind) THEN best
  ELSE brute_fold(bufs, i + 1,
         brute_candidate(best,
           Min(common_prefix(SubSeq(bufs.full, i + 1, Len(bufs.full)), bufs.ahead),
               longest_match),
           Len(bufs.behind) - i, shortest_match),
         longest_match, shortest_match)

brute_find_match(bufs, settings) ==
  brute_fold(bufs, 0, None, max_encoded(settings), settings.max_uncoded + 1)

(* compute_lps: lps[i] is kept as lps[i + 1] *)
RECURSIVE lps_fall(_, _, _, _)
lps_fall(pattern, lps, prefix_idx, ch) ==
  IF prefix_idx > 0 /\ ch # pattern[prefix_idx + 1]
  THEN lps_fall(pattern, lps, lps[prefix_idx], ch)
  ELSE prefix_idx

RECURSIVE lps_loop(_, _, _, _)
lps_loop(pattern, lps, prefix_idx, i) ==
  IF i >= Len(pattern) THEN lps
  ELSE LET ch == pattern[i + 1]
           p == lps_fall(pattern, lps, prefix_idx, ch)
       IN IF pattern[p + 1] = ch
          THEN lps_loop(pattern, [lps EXCEPT ![i + 1] = p + 1], p + 1, i + 1)
          ELSE lps_loop(pattern, lps, p, i + 1)

(* vec![0; pattern.len()], as a sequence, is what the loop starts from *)
compute_lps(pattern) ==
  lps_loop(pattern, <<>> \o [i \in 1..Len(pattern) |-> 0], 0, 1)

(* a skip over all that was matched, as the standard jump makes *)
lps_partial_skip_whole(limited) == Max(Len(limited) - 1, 0)

(* index of the last zero of `limited`, or 0 *)
lps_partial_skip(limited) ==
  LET zeros == {i \in 0..(Len(limited) - 1) : limited[i + 1] = 0} IN
  IF zeros = {} THEN 0 ELSE CHOOSE i \in zeros : \A j \in zeros : j <= i

(* best.filter(|b| b.size > match_size).or_else(..) *)
kmp_best(best, match_size, moveback) ==
  IF best.kind = "Some" /\ best.val.size > match_size THEN best
  ELSE Some(MoveBack_new(match_size, moveback))

RECURSIVE kmp_loop(_, _, _, _, _, _, _)
kmp_loop(bufs, lps, max, check_rl, best, target_idx, pat_idx) ==
  LET window == Len(bufs.behind)
      pattern_size == Len(bufs.ahead)
      iter(newly_matched) ==
        LET match_size == newly_matched + pat_idx
            lps_idx == Max(match_size - 1, 0)
        IN IF check_rl
           THEN kmp_loop(bufs, lps, max, check_rl,
                         kmp_best(best, match_size, window - (target_idx - pat_idx)),
                         target_idx + lps_partial_skip(SubSeq(lps, 1, lps_idx)) + 1, 0)
           ELSE kmp_loop(bufs, lps, max, check_rl,
                         kmp_best(best, match_size, window - (target_idx - pat_idx)),
                         target_idx + (IF pat_idx = 0 THEN Max(match_size, 1)
                                       ELSE newly_matched),
                         IF lps_idx < Len(lps) THEN lps[lps_idx + 1] ELSE 0)
  IN IF ~(pat_idx < pattern_size /\ target_idx < window) THEN best
     ELSE iter(Min(common_prefix(SubSeq(bufs.full, target_idx + 1, Len(bufs.full)),
                                 SubSeq(bufs.ahead, pat_idx + 1, pattern_size)),
                   max - pat_idx))

find_kmp(bufs, max, check_rl) ==
  kmp_loop(bufs, compute_lps(bufs.ahead), max, check_rl, None, 0, 0)

(* MatchFinder::find, dispatched on the LzssBackend *)
find(backend, bufs, settings) ==
  CASE backend = "Brute" -> brute_find_match(bufs, settings)
    [] backend = "Kmp" -> find_kmp(bufs, max_encoded(settings), FALSE)
    [] backend = "KmpAhead" -> find_kmp(bufs, max_encoded(settings), TRUE)

Uncoded == [kind |-> "Uncoded"]
Match(skipped, m) == [kind |-> "Match", skipped |-> skipped, m |-> m]

(* a scan that also accepts a match as long as the best before it *)
RECURSIVE nearby_scan_nonstrict(_, _, _, _, _, _)
nearby_scan_nonstrict(d, settings, backend, off, best, found) ==
  LET scanned(m) ==
        IF m.kind = "Some" /\ m.val.size > settings.max_uncoded /\ m.val.size >= best
        THEN nearby_scan_nonstrict(d, settings, backend, off + 1, m.val.size,
                                   Some([offset |-> off, m |-> m.val]))
        ELSE found
  IN IF off >= Min(remaining(d), MAX_AHEAD_CHECK) THEN found
     ELSE scanned(find(backend, offset_csr(d, off), settings))

(* a search that takes the match at the cursor and looks no further *)
look_for_match_at_cursor(d, settings, backend) ==
  LET taken(m) ==
        IF m.kind = "Some" /\ m.val.size > settings.max_uncoded
        THEN Match(<<>>, m.val) ELSE Uncoded
  IN taken(find(backend, offset_csr(d, 0), settings))

(* the scan over offsets 0, 1, ..: it ends at the first offset without an *)
(* accepted match; `found` is the last accepted (offset, match)            *)
RECURSIVE nearby_scan(_, _, _, _, _, _)
nearby_scan(d, settings, backend, off, best, found) ==
  LET scanned(m) ==
        IF m.kind = "Some" /\ m.val.size > settings.max_uncoded /\ m.val.size > best
        THEN nearby_scan(d, settings, backend, off + 1, m.val.size,
                         Some([offset |-> off, m |-> m.val]))
        ELSE found
  IN IF off >= Min(remaining(d), MAX_AHEAD_CHECK) THEN found
     ELSE scanned(find(backend, offset_csr(d, off), settings))

look_for_nearby_best_match(d, settings, backend) ==
  LET last_of(m) ==
        IF m.kind = "Some" THEN Match(SubSeq(ahead(d), 1, m.val.offset), m.val.m)
        ELSE Uncoded
  IN last_of(nearby_scan(d, settings, backend, 0, 0, None))

-----------------------------------------------------------------------------
(* encode/lzss.rs: LzssByte, LzssPass and the steps of compress_rdr *)

LzssByte_Encoded(size, off) == [kind |-> "Encoded", size |-> size, offset |-> off]
LzssByte_EncTwoSample(size, smp) == [kind |-> "EncTwoSample", size |-> size, sample |-> smp]
LzssByte_Uncoded(b) == [kind |-> "Uncoded", byte |-> b]

LzssByte_size(t) == IF t.kind = "Uncoded" THEN 1 ELSE t.size

(* a HashMap is a function on its keys; the empty one is <<>> *)
EmptyMap == <<>>
insert(map, k, v) == (k :> v) @@ map

(* an entry that records that a width was seen, not how often *)
count_bits_once(freq, k) == insert(freq, k, 1)

(* *map.entry(k).or_insert(0) += 1 *)
count_bits(freq, k) ==
  IF k \in DOMAIN freq THEN [freq EXCEPT ![k] = @ + 1] ELSE insert(freq, k, 1)

LzssPass_new ==
  [buf |-> <<>>, decompressed_size |-> None,
   size_bitfreq |-> EmptyMap, moveback_bitfreq |-> EmptyMap]

add_uncoded(p, byte) == [p EXCEPT !.buf = Append(@, LzssByte_Uncoded(byte))]

RECURSIVE add_uncoded_all(_, _)
add_uncoded_all(p, bytes) ==
  IF bytes = <<>> THEN p
  ELSE add_uncoded_all(add_uncoded(p, Head(bytes)), Tail(bytes))

LzssPass_add(p, byte) ==
  LET sized == IF byte.kind = "Uncoded" THEN p.size_bitfreq
               ELSE count_bits(p.size_bitfreq, count_needed_bits(byte.size))
      moved == CASE byte.kind = "Encoded" ->
                      count_bits(p.moveback_bitfreq, count_needed_bits(byte.offset))
                 [] byte.kind = "EncTwoSample" /\ byte.sample.kind = "One" ->
                      count_bits(p.moveback_bitfreq,
                                 count_needed_bits(byte.sample.offset))
                 [] byte.kind = "EncTwoSample" /\ byte.sample.kind = "Two" ->
                      count_bits(count_bits(p.moveback_bitfreq,
                                            count_needed_bits(byte.sample.first)),
                                 count_needed_bits(byte.sample.second))
                 [] OTHER -> p.moveback_bitfreq
  IN [p EXCEPT !.size_bitfreq = sized, !.moveback_bitfreq = moved,
               !.buf = Append(@, byte)]

(* add_match without the literals for the skipped bytes *)
add_match_unskipped(mat, skipped, method, p) ==
  [pass |-> LzssPass_add(p, IF method = "OneSample"
                            THEN LzssByte_Encoded(mat.size, mat.moveback)
                            ELSE LzssByte_EncTwoSample(mat.size,
                                                       TwoSample_from(mat.moveback))),
   total_bytes |-> mat.size + Len(skipped)]

(* add_match: the skipped bytes as literals, then the match; the result    *)
(* carries the number of input bytes covered                                *)
add_match(mat, skipped, method, p) ==
  LET encoded == IF method = "OneSample"
                 THEN LzssByte_Encoded(mat.size, mat.moveback)
                 ELSE LzssByte_EncTwoSample(mat.size, TwoSample_from(mat.moveback))
  IN [pass |-> LzssPass_add(add_uncoded_all(p, skipped), encoded),
      total_bytes |-> mat.size + Len(skipped)]

(* one iteration of the while loop of compress_rdr *)
compress_iter(d, r, p, settings, method, backend) ==
  LET advanced(step, adv) == [dict |-> adv.dict, rdr |-> adv.rdr, pass |-> step.pass]
      added(step) == advanced(step, advance_by(d, r, step.total_bytes))
      matched(la) ==
        added(IF la.kind = "Match" THEN add_match(la.m, la.skipped, method, p)
              ELSE [pass |-> add_uncoded(p, next_uncoded_byte(d).val),
                    total_bytes |-> 1])
  IN matched(look_for_nearby_best_match(d, settings, backend))

-----------------------------------------------------------------------------
(* encode/huffman.rs: TreeNode, Tree, HuffCode, CodeMap *)

TreeNode_Leaf(size, freq) == [kind |-> "Leaf", size |-> size, freq |-> freq]
TreeNode_CombinedLeaf(size, freq, lesser) ==
  [kind |-> "CombinedLeaf", size |-> size, freq |-> freq, lesser |-> lesser]
TreeNode_Node(freq, left, right) ==
  [kind |-> "Node", freq |-> freq, left |-> left, right |-> right]

lessers(n) == IF n.kind = "CombinedLeaf" THEN n.lesser ELSE <<>>

(* (higher, lower) by bit size, when both are leaves *)
order_leaves(l, r) ==
  IF l.kind = "Node" \/ r.kind = "Node" THEN None
  ELSE IF l.size >= r.size THEN Some(<<l, r>>) ELSE Some(<<r, l>>)

(* a pairing that merges any two leaves, whatever it costs *)
pair_lesser_sizes_always(l, r) ==
  LET o == order_leaves(l, r) IN
  IF o.kind = "None" THEN None
  ELSE Some(TreeNode_CombinedLeaf(o.val[1].size, o.val[1].freq + o.val[2].freq,
              <<o.val[2].size>> \o lessers(o.val[1]) \o lessers(o.val[2])))

pair_lesser_sizes(l, r) ==
  LET o == order_leaves(l, r) IN
  IF o.kind = "None" THEN None
  ELSE LET higher == o.val[1]
           lower == o.val[2]
           bit_diff == higher.size - lower.size
           bits_gained == higher.freq
           bits_lost == (bit_diff - 1) * lower.freq
       IN IF bits_gained - bits_lost >= 0
          THEN Some(TreeNode_CombinedLeaf(higher.size, higher.freq + lower.freq,
                      <<lower.size>> \o lessers(higher) \o lessers(lower)))
          ELSE None

combine(l, r) ==
  LET paired == pair_lesser_sizes(l, r) IN
  IF paired.kind = "Some" THEN paired.val
  ELSE TreeNode_Node(l.freq + r.freq, l, r)

(* the nodes heap.pop() may return: any node of least frequency (Ord       *)
(* compares frequencies only, and the heap is filled in HashMap order)     *)
pop_candidates(heap) == {n \in heap : \A m \in heap : n.freq <= m.freq}

(* Tree::from_heap: every root the loop can end with *)
RECURSIVE from_heap(_)
from_heap(heap) ==
  IF heap = {} THEN {None}
  ELSE IF Cardinality(heap) = 1 THEN {Some(n) : n \in heap}
  ELSE UNION { UNION { from_heap(((heap \ {l}) \ {r}) \cup {combine(l, r)}) :
                       r \in pop_candidates(heap \ {l}) } :
               l \in pop_candidates(heap) }

from_found_codes(map) == from_heap({TreeNode_Leaf(k, map[k]) : k \in DOMAIN map})

HuffCode_MAX_SIZE == 32
HuffCode_new == [code |-> 0, size |-> 0]
(* an extension that takes the other branch's bit *)
HuffCode_extend_flipped(c, bit) == [code |-> 2 * c.code + (1 - bit), size |-> c.size + 1]

HuffCode_extend(c, bit) == [code |-> 2 * c.code + bit, size |-> c.size + 1]

RECURSIVE insert_all(_, _, _)
insert_all(map, keys, v) ==
  IF keys = <<>> THEN map ELSE insert_all(insert(map, Head(keys), v), Tail(keys), v)

(* TreeNode::generate_code; map is Ok(CodeMap), or the panic of HuffCode::push *)
RECURSIVE generate_code(_, _, _)
generate_code(n, prefix, map) ==
  IF map.kind = "Panic" THEN map
  ELSE CASE n.kind = "Leaf" ->
              Ok(insert(map.val, n.size, [bits |-> n.size, code |-> prefix]))
         [] n.kind = "CombinedLeaf" ->
              Ok(insert_all(insert(map.val, n.size, [bits |-> n.size, code |-> prefix]),
                            n.lesser, [bits |-> n.size, code |-> prefix]))
         [] n.kind = "Node" ->
              IF prefix.size + 1 >= HuffCode_MAX_SIZE
              THEN Panic("exceded bit size for huffman code")
              ELSE generate_code(n.right, HuffCode_extend(prefix, 1),
                                 generate_code(n.left, HuffCode_extend(prefix, 0), map))

generate_code_map(root) == generate_code(root, HuffCode_new, Ok(EmptyMap))

(* TreeNode::flatten: the entries in post-order and the index of the root *)
RECURSIVE flatten(_, _)
flatten(n, arr) ==
  IF n.kind = "Node"
  THEN LET l == flatten(n.left, arr)
           r == flatten(n.right, l.arr)
       IN [arr |-> Append(r.arr, Node(l.idx, r.idx)), idx |-> Len(r.arr)]
  ELSE [arr |-> Append(arr, Leaf(n.size)), idx |-> Len(arr)]

Tree_into_VpkTree(root) == flatten(root, <<>>).arr

MapTree_empty == [map |-> EmptyMap, tree |-> VpkTree_empty]

(* the code map and the flat tree of a built or parsed Tree *)
MapTree_of(root) ==
  LET map == generate_code_map(root) IN
  IF map.kind = "Panic" THEN map
  ELSE Ok([map |-> map.val, tree |-> Tree_into_VpkTree(root)])

(* a conversion that gives an absent tree one leaf *)
MapTree_from_leaf(opt) ==
  IF opt.kind = "Some" THEN MapTree_of(opt.val)
  ELSE Ok([map |-> EmptyMap, tree |-> <<Leaf(0)>>])

(* From<Option<Tree>> for MapTree *)
MapTree_from(opt) == IF opt.kind = "Some" THEN MapTree_of(opt.val) ELSE Ok(MapTree_empty)

-----------------------------------------------------------------------------
(* encode/huffman.rs: tree strings.  A string is a sequence of characters; *)
(* positions are 0-based byte offsets as in the source.                    *)

IsDigit(c) == \E i \in 1..10 : Digits[i] = c
DigitVal(c) == (CHOOSE i \in 1..10 : Digits[i] = c) - 1
IsWhitespace(c) == c \in {" ", "\t", "\n"}

LexToken(pos, tok) == [pos |-> pos, tok |-> tok]
OpenParen == [t |-> "OpenParen"]
CloseParen == [t |-> "CloseParen"]
Comma == [t |-> "Comma"]
Number(v) == [t |-> "Number", val |-> v]

Token_as_str(tok) ==
  CASE tok.t = "OpenParen" -> "("
    [] tok.t = "CloseParen" -> ")"
    [] tok.t = "Comma" -> ","
    [] tok.t = "Number" -> "number"

(* s.chars().take_while(..).count() from position pos *)
RECURSIVE count_ws(_, _)
count_ws(s, pos) ==
  IF pos < Len(s) /\ IsWhitespace(s[pos + 1]) THEN 1 + count_ws(s, pos + 1) ELSE 0

RECURSIVE count_digits(_, _)
count_digits(s, pos) ==
  IF pos < Len(s) /\ IsDigit(s[pos + 1]) THEN 1 + count_digits(s, pos + 1) ELSE 0

(* str::parse::<u8>: the value, or None when it does not fit 8 bits *)
RECURSIVE parse_u8(_, _)
parse_u8(digits, acc) ==
  IF digits = <<>> THEN Some(acc)
  ELSE LET v == acc * 10 + DigitVal(Head(digits)) IN
       IF v > 255 THEN None ELSE parse_u8(Tail(digits), v)

RECURSIVE lex_loop(_, _, _)
lex_loop(s, pos, toks) ==
  IF pos >= Len(s) THEN Ok(toks)
  ELSE LET c == s[pos + 1] IN
    CASE c = "(" -> lex_loop(s, pos + 1, Append(toks, LexToken(pos, OpenParen)))
      [] c = ")" -> lex_loop(s, pos + 1, Append(toks, LexToken(pos, CloseParen)))
      [] c = "," -> lex_loop(s, pos + 1, Append(toks, LexToken(pos, Comma)))
      [] IsWhitespace(c) -> lex_loop(s, pos + count_ws(s, pos), toks)
      [] IsDigit(c) ->
           LET n == count_digits(s, pos)
               v == parse_u8(SubSeq(s, pos + 1, pos + n), 0)
           IN IF v.kind = "None" THEN Err(LexNum(pos))
              ELSE lex_loop(s, pos + n, Append(toks, LexToken(pos, Number(v.val))))
      [] OTHER -> Err(LexUnexp(c, pos))

lex_treestr(s) == lex_loop(s, 0, <<>>)

(* iter.next() on the token iterator *)
expect(toks, tok) ==
  IF toks = <<>> THEN Err(ParseUnexpEnd)
  ELSE IF Head(toks).tok = tok THEN Ok(Tail(toks))
  ELSE Err(ParseUnexp(Token_as_str(Head(toks).tok), Head(toks).pos))

(* parse_node: the node, with the tokens left in the iterator *)
RECURSIVE parse_node(_)
parse_node(toks) ==
  IF toks = <<>> THEN Err(ParseUnexpEnd)
  ELSE LET t == Head(toks) IN
    CASE t.tok.t = "Number" ->
           [kind |-> "Ok", val |-> TreeNode_Leaf(t.tok.val, 0), rest |-> Tail(toks)]
      [] t.tok.t = "OpenParen" ->
           LET left == parse_node(Tail(toks)) IN
           IF left.kind = "Err" THEN left
           ELSE LET comma == expect(left.rest, Comma) IN
             IF comma.kind = "Err" THEN comma
             ELSE LET right == parse_node(comma.val) IN
               IF right.kind = "Err" THEN right
               ELSE LET close == expect(right.rest, CloseParen) IN
                 IF close.kind = "Err" THEN close
                 ELSE [kind |-> "Ok", val |-> TreeNode_Node(0, left.val, right.val),
                       rest |-> close.val]
      [] OTHER -> Err(ParseUnexp(Token_as_str(t.tok), t.pos))

parse_treestr(s) ==
  LET lexed == lex_treestr(s) IN
  IF lexed.kind = "Err" THEN lexed
  ELSE LET node == parse_node(lexed.val) IN
       IF node.kind = "Err" THEN node ELSE Ok(node.val)

(* FromStr for MapTree *)
MapTree_from_str(s) ==
  LET t == parse_treestr(s) IN
  IF t.kind = "Err" THEN t ELSE MapTree_of(t.val)

(* MapTree::fill_missing; found lists the observed sizes in the order the  *)
(* histogram yields them                                                   *)
(* a fill that gives every absent width the code of the largest leaf *)
RECURSIVE fill_missing_max(_, _)
fill_missing_max(mt, found) ==
  IF DOMAIN mt.map = {} THEN Panic("at least one bit size in MapTree")
  ELSE LET max == CHOOSE k \in DOMAIN mt.map : \A j \in DOMAIN mt.map : j <= k IN
    IF found = <<>> THEN Ok(mt)
    ELSE LET bitsize == Head(found) IN
      IF bitsize > max THEN Panic("tried to insert into tree with smaller max")
      ELSE fill_missing_max(
             [mt EXCEPT !.map = insert(@, bitsize,
                                       IF bitsize \in DOMAIN mt.map THEN mt.map[bitsize]
                                       ELSE mt.map[max])],
             Tail(found))

RECURSIVE fill_missing(_, _)
fill_missing(mt, found) ==
  IF DOMAIN mt.map = {} THEN Panic("at least one bit size in MapTree")
  ELSE LET max == CHOOSE k \in DOMAIN mt.map : \A j \in DOMAIN mt.map : j <= k IN
    IF found = <<>> THEN Ok(mt)
    ELSE LET bitsize == Head(found) IN
      IF bitsize > max THEN Panic("tried to insert into tree with smaller max")
      ELSE LET check == CHOOSE c \in bitsize..max :
                          /\ c \in DOMAIN mt.map
                          /\ \A j \in bitsize..(c - 1) : j \notin DOMAIN mt.map
           IN fill_missing([mt EXCEPT !.map = insert(@, bitsize, mt.map[check])],
                           Tail(found))

(* the orders in which a HashMap can yield its keys *)
RECURSIVE Orders(_)
Orders(S) ==
  IF S = {} THEN {<<>>}
  ELSE UNION { {<<k>> \o o : o \in Orders(S \ {k})} : k \in S }

(* one tree of EncodedMaps::new: the outcomes for a (user text, histogram) *)
map_tree_for(user, freq) ==
  LET filled(t) ==
        IF t.kind = "Err" THEN {Err(BadUserTree(t.err))}
        ELSE IF t.kind = "Panic" THEN {t}
        ELSE {fill_missing(t.val, o) : o \in Orders(DOMAIN freq)}
  IN IF user.kind = "Some" THEN filled(MapTree_from_str(user.val))
     ELSE {MapTree_from(t) : t \in from_found_codes(freq)}

(* EncodedMaps::new: the offsets tree is settled before the lengths tree *)
EncodedMaps_new(offsets, lengths, p1) ==
  UNION { IF o.kind # "Ok" THEN {o}
          ELSE { IF l.kind # "Ok" THEN l
                 ELSE Ok([offsets |-> o.val, lengths |-> l.val]) :
                 l \in map_tree_for(lengths, p1.size_bitfreq) } :
          o \in map_tree_for(offsets, p1.moveback_bitfreq) }

-----------------------------------------------------------------------------
(* encode.rs: write_file, write_encoded_val, do_encode *)

(* BitWriter::write(bits, value) for a u32 value *)
write_u32(bits, value) ==
  IF bits > 32 THEN Err(Io)
  ELSE IF bits < 32 /\ value >= Shl1(bits) THEN Err(Io)
  ELSE Ok(write(bits, value))

write_encoded_val(val, map) ==
  LET needed_bits == count_needed_bits(val)
      coded(e, payload) ==
        IF payload.kind = "Err" THEN payload
        ELSE Ok(write(e.code.size, e.code.code) \o payload.val)
      found(e) == coded(e, write_u32(e.bits, val))
  IN IF needed_bits \notin DOMAIN map.map
     THEN Panic("called Option::unwrap() on a None value")
     ELSE found(map.map[needed_bits])

(* for &set in .. { write_encoded_val(&mut out, set)?; } *)
RECURSIVE write_encoded_vals(_, _)
write_encoded_vals(sets, bits) ==
  LET wrote(w) ==
        IF w.kind # "Ok" THEN w ELSE write_encoded_vals(Tail(sets), bits \o w.val)
  IN IF sets = <<>> THEN Ok(bits)
     ELSE wrote(write_encoded_val(Head(sets)[1], Head(sets)[2]))

(* the pairs of a one-sample back-reference with the length first *)
encoded_sets_length_first(code, trees) ==
  << <<code.size, trees.lengths>> >>
    \o (IF code.kind = "Encoded" THEN << <<code.offset, trees.offsets>> >>
        ELSE IF code.sample.kind = "One"
        THEN << <<code.sample.offset, trees.offsets>> >>
        ELSE << <<code.sample.first, trees.offsets>>,
                <<code.sample.second, trees.offsets>> >>)

(* the (value, map) pairs of one back-reference, in the order written *)
encoded_sets(code, trees) ==
  IF code.kind = "Encoded"
  THEN << <<code.offset, trees.offsets>>, <<code.size, trees.lengths>> >>
  ELSE (IF code.sample.kind = "One"
        THEN << <<code.sample.offset, trees.offsets>> >>
        ELSE << <<code.sample.first, trees.offsets>>,
                <<code.sample.second, trees.offsets>> >>)
       \o << <<code.size, trees.lengths>> >>

(* the loop over encoded_data.buf; bits holds what has been written *)
RECURSIVE write_codes(_, _, _)
write_codes(buf, trees, bits) ==
  LET wrote(w) ==
        IF w.kind # "Ok" THEN [res |-> w, bits |-> bits]
        ELSE write_codes(Tail(buf), trees, bits \o w.val)
  IN IF buf = <<>> THEN [res |-> Ok(<<>>), bits |-> bits]
     ELSE IF Head(buf).kind = "Uncoded"
     THEN write_codes(Tail(buf), trees,
                      bits \o write_bit(FALSE) \o write(8, Head(buf).byte))
     ELSE wrote(write_encoded_vals(encoded_sets(Head(buf), trees), write_bit(TRUE)))

(* a writer that also aligns to a byte after the trees *)
write_file_aligned_trees(method, encoded_data, trees) ==
  LET aligned(body) ==
        IF body.res.kind # "Ok" THEN body
        ELSE [res |-> Ok(<<>>), bits |-> byte_align(body.bits)]
  IN IF encoded_data.decompressed_size.kind = "None"
     THEN [res |-> Panic("called Option::unwrap() on a None value"), bits |-> <<>>]
     ELSE aligned(write_codes(encoded_data.buf, trees,
            byte_align(VpkHeader_write([size |-> encoded_data.decompressed_size.val,
                                        method |-> method])
                         \o VpkTree_write(trees.offsets.tree)
                         \o VpkTree_write(trees.lengths.tree))))

write_file(method, encoded_data, trees) ==
  LET aligned(body) ==
        IF body.res.kind # "Ok" THEN body
        ELSE [res |-> Ok(<<>>), bits |-> byte_align(body.bits)]
  IN IF encoded_data.decompressed_size.kind = "None"
     THEN [res |-> Panic("called Option::unwrap() on a None value"), bits |-> <<>>]
     ELSE aligned(write_codes(encoded_data.buf, trees,
            VpkHeader_write([size |-> encoded_data.decompressed_size.val,
                             method |-> method])
              \o VpkTree_write(trees.offsets.tree)
              \o VpkTree_write(trees.lengths.tree)))

(* compress_rdr up to its loop: SlidingDict::new and LzssPass::new *)
EncodeStart ==
  /\ pc = "start"
  /\ \E sd \in {SlidingDict_new(rdr, opts.settings)} :
       /\ dict' = sd.dict
       /\ rdr' = sd.rdr
  /\ pass' = LzssPass_new
  /\ pc' = "lzss"
  /\ UNCHANGED <<opts, input, maps, wtr, enc_result, artifact, log>>
  /\ UNCHANGED <<decVars, treeVars, twoVars>>

(* the writeln!(..).unwrap() calls of one iteration of the loop of         *)
(* compress_rdr: one per offset the scan of look_for_nearby_best_match     *)
(* looks at, one for what it found, and one in add_match                   *)
lzss_log_lines(d, la) ==
  LET accepted == IF la.kind = "Match" THEN Len(la.skipped) + 1 ELSE 0
  IN Min(accepted + 1, Min(MAX_AHEAD_CHECK, Len(ahead(d))))
       + 1 + (IF la.kind = "Match" THEN 1 ELSE 0)

(* one iteration of the loop of compress_rdr with the log sink lg *)
lzss_step(d, r, p, settings, method, backend, lg) ==
  LET done(it, lw) ==
        [dict |-> it.dict, rdr |-> it.rdr, pass |-> it.pass, log |-> lw.log,
         res |-> Continue]
      logged(lw) ==
        IF lw.ok
        THEN done(compress_iter(d, r, p, settings, method, backend), lw)
        ELSE [dict |-> d, rdr |-> r, pass |-> p, log |-> lw.log,
              res |-> Panic("called Result::unwrap() on an Err value")]
  IN logged(log_lines(lg, lzss_log_lines(d,
                            look_for_nearby_best_match(d, settings, backend))))

(* one iteration of while dict.remaining() > 0 *)
LzssStep ==
  /\ pc = "lzss"
  /\ remaining(dict) > 0
  /\ \E it \in {lzss_step(dict, rdr, pass, opts.settings, opts.method,
                          opts.backend, log)} :
       /\ dict' = it.dict
       /\ rdr' = it.rdr
       /\ pass' = it.pass
       /\ log' = it.log
       /\ IF it.res = Continue THEN UNCHANGED <<enc_result, pc>>
          ELSE enc_result' = it.res /\ pc' = "done"
  /\ UNCHANGED <<opts, input, maps, wtr, artifact>>
  /\ UNCHANGED <<decVars, treeVars, twoVars>>

(* the end of compress_rdr, then EncodedMaps::new *)
BuildMaps ==
  /\ pc = "lzss"
  /\ remaining(dict) = 0
  /\ pass' = [pass EXCEPT !.decompressed_size = Some(dict.total_read)]
  /\ \E r \in EncodedMaps_new(opts.offsets, opts.lengths, pass') :
       \E lw \in {log_lines(log, IF r.kind = "Ok" THEN 2 ELSE 0)} :
          /\ log' = lw.log
          /\ IF r.kind # "Ok"
             THEN maps' = None /\ pc' = "done" /\ enc_result' = r
             ELSE IF lw.ok
             THEN maps' = r.val /\ pc' = "write" /\ UNCHANGED enc_result
             ELSE maps' = r.val /\ pc' = "done" /\ enc_result' = Err(Io)
  /\ UNCHANGED <<opts, input, rdr, dict, wtr, artifact>>
  /\ UNCHANGED <<decVars, treeVars, twoVars>>

(* write_file into the Vec of encode_to_vec *)
WriteFile ==
  /\ pc = "write"
  /\ \E w \in {write_file(opts.method, pass, maps)} :
       /\ wtr' = SubSeq(w.bits, 1, 8 * (Len(w.bits) \div 8))
       /\ enc_result' = IF w.res.kind = "Ok" THEN Ok(BitsToBytes(w.bits)) ELSE w.res
  /\ pc' = "done"
  /\ UNCHANGED <<opts, input, rdr, dict, pass, maps, artifact, log>>
  /\ UNCHANGED <<decVars, treeVars, twoVars>>

(* Decoder::for_bytes on the bytes encode_to_vec returned *)
ForBytes ==
  /\ enc_result.kind = "Ok"
  /\ dec_result = None
  /\ src' = BytesToBits(enc_result.val)
  /\ dec_result' = NotStarted
  /\ UNCHANGED <<fuel, info, output, last, dlog, ret, encVars, treeVars, twoVars>>

(* EncoderBuilder::for_bytes on the decoded bytes, with the method of the  *)
(* artifact, the Brute finder and the trees of the artifact as rendered by *)
(* trees() / vpk_info                                                      *)
ReEncode ==
  /\ dec_result.kind = "Ok"
  /\ artifact = None
  /\ artifact' = Some(enc_result.val)
  /\ opts' = [opts EXCEPT !.method = info.val.hdr.method,
                          !.backend = "Brute",
                          !.offsets = Some(VpkTree_fmt(info.val.offsets)),
                          !.lengths = Some(VpkTree_fmt(info.val.lengths))]
  /\ input' = dec_result.val
  /\ rdr' = [data |-> dec_result.val, chunk |-> 0]
  /\ dict' = None /\ pass' = None /\ maps' = None
  /\ wtr' = <<>> /\ enc_result' = NotStarted /\ pc' = "start"
  /\ UNCHANGED <<log, decVars, treeVars, twoVars>>

-----------------------------------------------------------------------------
(* Idle values of the parts a specification does not use *)

EncIdle ==
  /\ opts = None /\ input = <<>> /\ rdr = None /\ dict = None /\ pass = None
  /\ maps = None /\ wtr = <<>> /\ enc_result = NotStarted /\ pc = "idle"
  /\ artifact = None /\ log = None

DecIdle ==
  /\ src = <<>> /\ fuel = 0 /\ info = None /\ output = <<>>
  /\ dec_result = NotStarted /\ last = NoToken /\ dlog = None /\ ret = None

TreeIdle == tree = None /\ text = None /\ parsed = None

TwoIdle == offset = 0 /\ sample = None /\ move_back = None

-----------------------------------------------------------------------------
(* SpecDecode: the decoder over arbitrary artifacts.  The stream starts    *)
(* with a header and two trees (possibly cut short); the body is whatever  *)
(* the reader yields next: any literal or back-reference record the trees  *)
(* can express, or the end of the stream.                                  *)

MaxSize == 6
MaxTokens == 3

DecBytes == {65, 66}
DecMagics == {Magic, <<118, 112, 107, 49>>, <<255, 112, 107, 48>>}
DecTreePairs ==
  { <<VpkTree_empty, VpkTree_empty>>,
    <<VpkTree_empty, <<Leaf(2)>> >>,
    << <<Leaf(2)>>, <<Leaf(2)>> >>,
    << <<Leaf(1), Leaf(3), Node(0, 1)>>, <<Leaf(0), Leaf(3), Node(0, 1)>> >> }

RECURSIVE Pow2(_)
Pow2(n) == IF n = 0 THEN 1 ELSE 2 * Pow2(n - 1)

RECURSIVE LeafCodes(_, _, _)
LeafCodes(t, idx, prefix) ==
  IF t[idx + 1].kind = "Leaf" THEN {[code |-> prefix, size |-> t[idx + 1].val]}
  ELSE LeafCodes(t, t[idx + 1].left, Append(prefix, 0))
         \cup LeafCodes(t, t[idx + 1].right, Append(prefix, 1))

(* every bit string a value lookup through t consumes exactly *)
TreeWords(t) ==
  IF Len(t) = 0 THEN {<<>>}
  ELSE UNION { {l.code \o ToBits(l.size, v) : v \in 0..(Pow2(l.size) - 1)} :
               l \in LeafCodes(t, Len(t) - 1, <<>>) }

TokenChunks(i) ==
  LET ow == TreeWords(i.offsets)
      lw == TreeWords(i.lengths)
      second(a) == IF i.hdr.method = "TwoSample" /\ read_value(i.offsets, a).val < 3
                   THEN ow ELSE {<<>>}
  IN { <<0>> \o ToBits(8, b) : b \in DecBytes }
       \cup UNION { UNION { { <<1>> \o a \o a2 \o l : l \in lw } : a2 \in second(a) } :
                    a \in ow }

InitDecode ==
  /\ \E magic \in DecMagics, size \in 0..MaxSize, m \in 0..2, tp \in DecTreePairs,
        cut \in {0, 1, 2} :
       LET full == write_bytes(magic) \o write(32, size) \o write(8, m)
                     \o VpkTree_write(tp[1]) \o VpkTree_write(tp[2])
       IN /\ src = CASE cut = 0 -> full
                     [] cut = 1 -> SubSeq(full, 1, Len(full) - 1)
                     [] cut = 2 -> SubSeq(full, 1, 71)
          /\ fuel = IF cut = 0 THEN MaxTokens ELSE 0
  /\ info = None /\ output = <<>> /\ dec_result = NotStarted /\ last = NoToken
  /\ dlog = None /\ ret = None
  /\ EncIdle /\ TreeIdle /\ TwoIdle

(* the reader yields one more record, and the loop runs once *)
FeedStep ==
  /\ fuel > 0
  /\ dec_result = Running
  /\ fuel' = fuel - 1
  /\ \E chunk \in TokenChunks(info.val) : DecodeStepOn(chunk)

NextDecode == DecodeStart \/ FeedStep \/ DecodeStep

SpecDecode == InitDecode /\ [][NextDecode]_vars

(* SpecQuery: header() and trees() any number of times, in any order,      *)
(* before decode() on the same Decoder                                     *)
NextQuery == Header \/ Trees \/ DecodeStart \/ FeedStep \/ DecodeStep

SpecQuery == InitDecode /\ [][NextQuery]_vars

-----------------------------------------------------------------------------
(* Spec: encode_to_vec on a byte slice, Decoder::for_bytes(..).decode() on *)
(* the result, then a second encode of the decoded bytes with the trees of *)
(* the artifact.                                                           *)

MaxLen == 4

Bytes == {65, 66}

RECURSIVE SeqsUpTo(_, _)
SeqsUpTo(S, n) ==
  IF n = 0 THEN {<<>>}
  ELSE LET shorter == SeqsUpTo(S, n - 1) IN
       shorter \cup {Append(q, b) : q \in shorter, b \in S}

(* "YAAAAAAAAAAAAAA", "abcdefgh12345", "ABCDABCD", "ABCXBCDEYABCDE",      *)
(* "ABCDEFGAB" and "ABCDEFGHAB"                                            *)
Samples ==
  { <<89>> \o [i \in 1..14 |-> 65],
    <<97, 98, 99, 100, 101, 102, 103, 104, 49, 50, 51, 52, 53>>,
    <<65, 66, 67, 68, 65, 66, 67, 68>>,
    <<65, 66, 67, 88, 66, 67, 68, 69, 89, 65, 66, 67, 68, 69>>,
    <<65, 66, 67, 68, 69, 70, 71, 65, 66>>,
    <<65, 66, 67, 68, 69, 70, 71, 72, 65, 66>> }

Inputs == SeqsUpTo(Bytes, MaxLen) \cup Samples

Methods == {"OneSample", "TwoSample"}
Backends == {"Brute", "Kmp", "KmpAhead"}
SmallSettings == [offset_bits |-> 3, length_bits |-> 2, max_uncoded |-> 1]

(* "(1, 2)", "()", "3" and "(1, (4, 7))" *)
Text_1_2 == <<"(", "1", ",", " ", "2", ")">>
Text_empty == <<"(", ")">>
Text_3 == <<"3">>
Text_1_4_7 == <<"(", "1", ",", " ", "(", "4", ",", " ", "7", ")", ")">>

UserTrees ==
  { <<Some(Text_1_2), Some(Text_1_2)>>,
    <<None, Some(Text_1_2)>>,
    <<Some(Text_3), Some(Text_3)>>,
    <<Some(Text_empty), None>>,
    <<Some(Text_1_4_7), Some(Text_1_4_7)>> }

Configs ==
  { [method |-> m, backend |-> b, settings |-> st, offsets |-> None, lengths |-> None] :
      m \in Methods, b \in Backends, st \in {LzssSettings_default, SmallSettings} }
  \cup
  { [method |-> m, backend |-> "Brute", settings |-> LzssSettings_default,
     offsets |-> u[1], lengths |-> u[2]] : m \in Methods, u \in UserTrees }

Init ==
  /\ opts \in Configs
  /\ input \in Inputs
  /\ rdr = [data |-> input, chunk |-> 0]
  /\ dict = None /\ pass = None /\ maps = None
  /\ wtr = <<>> /\ enc_result = NotStarted /\ pc = "start" /\ artifact = None
  /\ log = None
  /\ src = <<>> /\ fuel = 0 /\ info = None /\ output = <<>>
  /\ dec_result = None /\ last = NoToken /\ dlog = None /\ ret = None
  /\ TreeIdle /\ TwoIdle

Next ==
  \/ EncodeStart \/ LzssStep \/ BuildMaps \/ WriteFile
  \/ ForBytes \/ DecodeStart \/ DecodeStep
  \/ ReEncode

Spec == Init /\ [][Next]_vars

-----------------------------------------------------------------------------
(* SpecLog: the encode and the decode of Spec with a log sink attached by  *)
(* with_logging, or none.  A sink is any Write: it accepts every write, or *)
(* fails after a number of them.                                           *)

MaxRoom == 8

Sinks == {None, Sink(-1)} \cup {Sink(k) : k \in 0..MaxRoom}

(* "", "AAAA" and "ABCDABCD" *)
LogInputs == {<<>>, <<65, 65, 65, 65>>, <<65, 66, 67, 68, 65, 66, 67, 68>>}

InitLog ==
  /\ opts \in {c \in Configs : c.offsets = None /\ c.lengths = None
                               /\ c.settings = LzssSettings_default}
  /\ input \in LogInputs
  /\ rdr = [data |-> input, chunk |-> 0]
  /\ dict = None /\ pass = None /\ maps = None
  /\ wtr = <<>> /\ enc_result = NotStarted /\ pc = "start" /\ artifact = None
  /\ log \in Sinks
  /\ src = <<>> /\ fuel = 0 /\ info = None /\ output = <<>>
  /\ dec_result = None /\ last = NoToken
  /\ dlog \in Sinks /\ ret = None
  /\ TreeIdle /\ TwoIdle

NextLog ==
  \/ EncodeStart \/ LzssStep \/ BuildMaps \/ WriteFile
  \/ ForBytes \/ DecodeStart \/ DecodeStep

SpecLog == InitLog /\ [][NextLog]_vars

-----------------------------------------------------------------------------
(* SpecTwoSample: the two-sample split of the encoder and the move_back    *)
(* computation of the decoder, on every offset up to MaxOffset             *)

MaxOffset == 128

InitTwoSample ==
  /\ offset \in 1..MaxOffset
  /\ sample = None /\ move_back = None
  /\ EncIdle /\ DecIdle /\ TreeIdle

(* add_match: mat.moveback.into() *)
Split ==
  /\ sample = None
  /\ sample' = Some(TwoSample_from(offset))
  /\ UNCHANGED <<offset, move_back, encVars, decVars, treeVars>>

(* the values the offsets tree yields for a sample, in the order written *)
components(smp) ==
  IF smp.kind = "One" THEN <<smp.offset>> ELSE <<smp.first, smp.second>>

Misread == [kind |-> "Misread"]

(* do_decode on the components: a first value below 3 asks for a second *)
Join ==
  /\ sample # None
  /\ move_back = None
  /\ \E c \in {components(sample.val)} :
       move_back' = IF (c[1] < 3) # (Len(c) = 2) THEN Misread
                    ELSE Some(two_sample_move_back(c[1], IF Len(c) = 2 THEN c[2] ELSE 0))
  /\ UNCHANGED <<offset, sample, encVars, decVars, treeVars>>

NextTwoSample == Split \/ Join

SpecTwoSample == InitTwoSample /\ [][NextTwoSample]_vars

-----------------------------------------------------------------------------
(* SpecTree: Display for VpkTree, then FromStr for MapTree, on every tree  *)
(* of up to MaxLeaves leaves                                               *)

MaxLeaves == 3

LeafValues == {0, 2, 10}

RECURSIVE TreesWith(_)
TreesWith(n) ==
  IF n = 1 THEN {TreeNode_Leaf(v, 0) : v \in LeafValues}
  ELSE UNION { {TreeNode_Node(0, l, r) : l \in TreesWith(k), r \in TreesWith(n - k)} :
               k \in 1..(n - 1) }

VpkTrees ==
  {VpkTree_empty}
    \cup {Tree_into_VpkTree(t) : t \in UNION {TreesWith(n) : n \in 1..MaxLeaves}}

InitTree ==
  /\ tree \in VpkTrees
  /\ text = None /\ parsed = None
  /\ EncIdle /\ DecIdle /\ TwoIdle

(* tree.to_string() *)
Render ==
  /\ text = None
  /\ text' = Some(VpkTree_fmt(tree))
  /\ UNCHANGED <<tree, parsed, encVars, decVars, twoVars>>

(* text.parse::<MapTree>() *)
Parse ==
  /\ text # None
  /\ parsed = None
  /\ parsed' = MapTree_from_str(text.val)
  /\ UNCHANGED <<tree, text, encVars, decVars, twoVars>>

NextTree == Render \/ Parse

SpecTree == InitTree /\ [][NextTree]_vars

-----------------------------------------------------------------------------
(* SpecLookup: values written through the code map of a tree with          *)
(* write_encoded_val and read back through the tree with read_value, on    *)
(* trees of no, one and two leaves and on every bit stream up to MaxBits   *)

MaxBits == 4

LookupTrees ==
  {VpkTree_empty, <<Leaf(1), Leaf(2), Node(0, 1)>>} \cup {<<Leaf(n)>> : n \in 0..3}

InitLookup ==
  /\ tree \in LookupTrees
  /\ src \in SeqsUpTo({0, 1}, MaxBits)
  /\ ret = None
  /\ text = None /\ parsed = None
  /\ fuel = 0 /\ info = None /\ output = <<>>
  /\ dec_result = NotStarted /\ last = NoToken /\ dlog = None
  /\ EncIdle /\ TwoIdle

(* write_encoded_val of a value into an empty stream, with the code map of *)
(* the tree given as text                                                  *)
WriteValue ==
  /\ src = <<>> /\ ret = None
  /\ \E val \in 0..7 :
       \E mt \in {MapTree_from_str(VpkTree_fmt(tree))} :
          /\ mt.kind = "Ok"
          /\ \E w \in {write_encoded_val(val, mt.val)} :
               w.kind = "Ok" /\ src' = w.val
  /\ UNCHANGED <<tree, text, parsed, fuel, info, output, dec_result, last, dlog,
                 ret, encVars, twoVars>>

(* tree.read_value(bits) on the stream *)
ReadValue ==
  /\ \E r \in {read_value(tree, src)} :
       IF r.kind = "Ok" THEN ret' = Ok(r.val) /\ src' = r.rest
       ELSE ret' = Err(r.err) /\ src' = <<>>
  /\ UNCHANGED <<tree, text, parsed, fuel, info, output, dec_result, last, dlog,
                 encVars, twoVars>>

NextLookup == WriteValue \/ ReadValue

SpecLookup == InitLookup /\ [][NextLookup]_vars

-----------------------------------------------------------------------------
(* SpecTreeRead: VpkTree::from_bitreader, one pass of its loop at a time,  *)
(* on every stream of up to MaxEntries leaf records (0 and a byte) and 1   *)
(* bits, whole or with its last four bits missing                          *)

MaxEntries == 6

TreeRecords == {<<1>>} \cup {<<0>> \o ToBits(8, v) : v \in {1, 3}}

RECURSIVE Flat(_)
Flat(ss) == IF ss = <<>> THEN <<>> ELSE Head(ss) \o Flat(Tail(ss))

TreeStreams ==
  LET whole == {Flat(ss) : ss \in SeqsUpTo(TreeRecords, MaxEntries)}
  IN whole \cup {SubSeq(w, 1, Len(w) - 4) : w \in {x \in whole : Len(x) >= 4}}

InitTreeRead ==
  /\ input \in TreeStreams
  /\ src = input
  /\ tree = [entries |-> <<>>, buf |-> <<>>]
  /\ parsed = None /\ text = None
  /\ pc = "tree"
  /\ opts = None /\ rdr = None /\ dict = None /\ pass = None /\ maps = None
  /\ wtr = <<>> /\ enc_result = NotStarted /\ artifact = None /\ log = None
  /\ fuel = 0 /\ info = None /\ output = <<>>
  /\ dec_result = NotStarted /\ last = NoToken /\ dlog = None /\ ret = None
  /\ TwoIdle

(* the body of the loop runs once *)
TreeReadStep ==
  /\ pc = "tree" /\ parsed = None
  /\ \E it \in {from_bitreader_iter(src, tree.entries, tree.buf)} :
       CASE it.kind = "Loop" ->
              /\ tree' = [entries |-> it.entries, buf |-> it.buf]
              /\ src' = it.rest
              /\ parsed' = None
         [] it.kind = "Ok" ->
              /\ parsed' = Ok(it.val)
              /\ src' = it.rest
              /\ tree' = tree
         [] OTHER ->
              /\ parsed' = Err(it.err)
              /\ src' = <<>>
              /\ tree' = tree
  /\ UNCHANGED <<text, fuel, info, output, dec_result, last, dlog, ret,
                 encVars, twoVars>>

NextTreeRead == TreeReadStep

SpecTreeRead == InitTreeRead /\ [][NextTreeRead]_vars

-----------------------------------------------------------------------------
(* Histograms of bit widths as the LZSS pass counts them: every map from a *)
(* set of the widths 0, 1, 2, 4 and 7 to counts of up to MaxFreq           *)

MaxFreq == 3

HistWidths == {0, 1, 2, 4, 7}

Histograms ==
  UNION { [ws -> 1..MaxFreq] : ws \in SUBSET HistWidths }

(* the trees the builder can make of a histogram *)
BuiltFrom(h) == {MapTree_from(t) : t \in from_found_codes(h)}

(* SpecWire: VpkTree::write of a tree into a stream that goes on with      *)
(* other bits, then VpkTree::from_bitreader on that stream.  The tree      *)
(* comes from the builder, from tree text or from a decoded stream.        *)

TreeTexts ==
  {VpkTree_fmt(t) : t \in VpkTrees} \cup {Text_1_2, Text_3, Text_1_4_7, Text_empty}

WireTrees ==
  {mt.val.tree : mt \in {x \in UNION {BuiltFrom(h) : h \in Histograms} : x.kind = "Ok"}}
    \cup {mt.val.tree : mt \in {x \in {MapTree_from_str(s) : s \in TreeTexts} : x.kind = "Ok"}}
    \cup {d.val : d \in {x \in {VpkTree_from_bitreader(b) : b \in TreeStreams} : x.kind = "Ok"}}

InitWire ==
  /\ tree \in WireTrees
  /\ input \in {<<>>, <<0>>, <<1>>, <<1, 0, 1>>}
  /\ src = <<>> /\ wtr = <<>>
  /\ parsed = None /\ text = None
  /\ pc = "wire"
  /\ opts = None /\ rdr = None /\ dict = None /\ pass = None /\ maps = None
  /\ enc_result = NotStarted /\ artifact = None /\ log = None
  /\ fuel = 0 /\ info = None /\ output = <<>>
  /\ dec_result = NotStarted /\ last = NoToken /\ dlog = None /\ ret = None
  /\ TwoIdle

(* tree.write(wtr), and the stream goes on with the bits of input *)
WireWrite ==
  /\ pc = "wire"
  /\ wtr' = VpkTree_write(tree)
  /\ src' = wtr' \o input
  /\ pc' = "written"
  /\ UNCHANGED <<opts, input, rdr, dict, pass, maps, enc_result, artifact, log,
                 fuel, info, output, dec_result, last, dlog, ret,
                 treeVars, twoVars>>

(* VpkTree::from_bitreader(bits) *)
WireRead ==
  /\ pc = "written"
  /\ parsed' = VpkTree_from_bitreader(src)
  /\ pc' = "read"
  /\ UNCHANGED <<opts, input, rdr, dict, pass, maps, wtr, enc_result, artifact,
                 log, decVars, tree, text, twoVars>>

NextWire == WireWrite \/ WireRead

SpecWire == InitWire /\ [][NextWire]_vars

-----------------------------------------------------------------------------
(* SpecHeap: Tree::from_found_codes on every histogram, one pass of the    *)
(* loop of from_heap at a time                                             *)

InitHeap ==
  /\ \E h \in Histograms :
       /\ ret = Some(h)
       /\ tree = {TreeNode_Leaf(k, h[k]) : k \in DOMAIN h}
  /\ parsed = None /\ text = None
  /\ pc = "heap"
  /\ opts = None /\ input = <<>> /\ rdr = None /\ dict = None /\ pass = None
  /\ maps = None /\ wtr = <<>> /\ enc_result = NotStarted /\ artifact = None
  /\ log = None
  /\ src = <<>> /\ fuel = 0 /\ info = None /\ output = <<>>
  /\ dec_result = NotStarted /\ last = NoToken /\ dlog = None
  /\ TwoIdle

(* while heap.len() >= 2: pop l, pop r, push combine(l, r) *)
HeapStep ==
  /\ pc = "heap"
  /\ Cardinality(tree) >= 2
  /\ \E l \in pop_candidates(tree) :
       \E r \in pop_candidates(tree \ {l}) :
          tree' = ((tree \ {l}) \ {r}) \cup {combine(l, r)}
  /\ UNCHANGED <<text, parsed, encVars, decVars, twoVars>>

(* the heap was empty, or the last node is the root *)
HeapDone ==
  /\ pc = "heap"
  /\ Cardinality(tree) < 2
  /\ parsed' = IF tree = {} THEN Some(None) ELSE Some(Some(CHOOSE n \in tree : TRUE))
  /\ pc' = "built"
  /\ UNCHANGED <<opts, input, rdr, dict, pass, maps, wtr, enc_result, artifact,
                 log, decVars, tree, text, twoVars>>

NextHeap == HeapStep \/ HeapDone

SpecHeap == InitHeap /\ [][NextHeap]_vars

-----------------------------------------------------------------------------
(* SpecCode: a tree built of a histogram; a value of one of the counted    *)
(* widths is written with write_encoded_val through the code map, other    *)
(* bits follow, and the value is read with read_value through the tree     *)

(* the least and the greatest value of width w *)
ValuesOf(w) == IF w = 0 THEN {0} ELSE {Pow2(w - 1), Pow2(w) - 1}

InitCode ==
  /\ \E h \in Histograms :
       /\ ret = Some(h)
       /\ \E mt \in BuiltFrom(h) :
            /\ mt.kind = "Ok"
            /\ maps = mt.val
            /\ tree = mt.val.tree
  /\ input \in {<<>>, <<1, 0>>}
  /\ src = <<>> /\ offset = 0
  /\ parsed = None /\ text = None
  /\ pc = "code"
  /\ opts = None /\ rdr = None /\ dict = None /\ pass = None
  /\ wtr = <<>> /\ enc_result = NotStarted /\ artifact = None /\ log = None
  /\ fuel = 0 /\ info = None /\ output = <<>>
  /\ dec_result = NotStarted /\ last = NoToken /\ dlog = None
  /\ sample = None /\ move_back = None

(* write_encoded_val(out, (val, map)) *)
CodeWrite ==
  /\ pc = "code"
  /\ \E w \in DOMAIN ret.val :
       \E val \in ValuesOf(w) :
          \E r \in {write_encoded_val(val, maps)} :
             /\ offset' = val
             /\ IF r.kind = "Ok"
                THEN src' = r.val \o input /\ pc' = "coded"
                ELSE src' = <<>> /\ pc' = "failed"
  /\ UNCHANGED <<opts, input, rdr, dict, pass, maps, wtr, enc_result, artifact,
                 log, fuel, info, output, dec_result, last, dlog, ret,
                 treeVars, sample, move_back>>

(* tree.read_value(bits) *)
CodeRead ==
  /\ pc = "coded"
  /\ parsed' = read_value(tree, src)
  /\ pc' = "looked"
  /\ UNCHANGED <<opts, input, rdr, dict, pass, maps, wtr, enc_result, artifact,
                 log, decVars, tree, text, twoVars>>

NextCode == CodeWrite \/ CodeRead

SpecCode == InitCode /\ [][NextCode]_vars

-----------------------------------------------------------------------------
(* SpecFill: a tree text of the user is parsed and filled against the      *)
(* widths of a histogram, which a HashMap yields in any order              *)

FillTexts == {t \in TreeTexts : MapTree_from_str(t).kind = "Ok"}

InitFill ==
  /\ text \in {Some(t) : t \in FillTexts}
  /\ ret \in {Some([w \in ws |-> 1]) : ws \in SUBSET HistWidths}
  /\ maps = MapTree_from_str(text.val).val
  /\ tree = maps.tree
  /\ parsed = None
  /\ pc = "fill"
  /\ opts = None /\ input = <<>> /\ rdr = None /\ dict = None /\ pass = None
  /\ wtr = <<>> /\ enc_result = NotStarted /\ artifact = None /\ log = None
  /\ src = <<>> /\ fuel = 0 /\ info = None /\ output = <<>>
  /\ dec_result = NotStarted /\ last = NoToken /\ dlog = None
  /\ TwoIdle

(* t.fill_missing(&found) *)
Fill ==
  /\ pc = "fill"
  /\ \E o \in Orders(DOMAIN ret.val) : parsed' = fill_missing(maps, o)
  /\ pc' = "filled"
  /\ UNCHANGED <<opts, input, rdr, dict, pass, maps, wtr, enc_result, artifact,
                 log, decVars, tree, text, twoVars>>

NextFill == Fill

SpecFill == InitFill /\ [][NextFill]_vars

-----------------------------------------------------------------------------
(* SpecRead: the encode of Spec from any reader.  A call of Read::read may *)
(* return fewer bytes than asked for although more will come: the reader   *)
(* yields at most chunk bytes per call (pipes, sockets, chained readers).  *)

MaxChunk == 2

Readers(data) == {[data |-> data, chunk |-> c] : c \in 0..MaxChunk}

InitRead ==
  /\ opts \in {o \in Configs : o.offsets = None /\ o.lengths = None}
  /\ input \in Inputs
  /\ rdr \in Readers(input)
  /\ dict = None /\ pass = None /\ maps = None
  /\ wtr = <<>> /\ enc_result = NotStarted /\ pc = "start" /\ artifact = None
  /\ log = None
  /\ DecIdle /\ TreeIdle /\ TwoIdle

NextRead == EncodeStart \/ LzssStep \/ BuildMaps \/ WriteFile

SpecRead == InitRead /\ [][NextRead]_vars

-----------------------------------------------------------------------------
(* SpecFind: one call of MatchFinder::find on the buffers offset_csr gives *)
(* for a sliding dictionary.  The dictionary holds up to MaxBuf bytes with *)
(* the cursor anywhere before its end and within the window; the scan of   *)
(* look_for_nearby_best_match calls find at the offsets 0, 1, .. below the *)
(* length of the lookahead.                                                *)

MaxBuf == 6

(* a window of 3 bytes with matches of exactly 3 bytes *)
NarrowSettings == [offset_bits |-> 2, length_bits |-> 2, max_uncoded |-> 2]

SlidingDict_at(settings, buf, csr) ==
  [window |-> window_size(settings), lookahead |-> max_encoded(settings),
   buf_size |-> window_size(settings) + max_encoded(settings),
   max_ahead |-> max_encoded(settings) + MAX_PEEK,
   csr |-> csr, buf |-> buf, more_to_read |-> FALSE, total_read |-> Len(buf)]

Dicts(settings) ==
  { SlidingDict_at(settings, b, c) :
      b \in SeqsUpTo(Bytes, MaxBuf) \ {<<>>}, c \in 0..window_size(settings) }

InitFind ==
  /\ opts \in { [method |-> "OneSample", backend |-> b, settings |-> st,
                 offsets |-> None, lengths |-> None] :
                 b \in Backends, st \in {SmallSettings, NarrowSettings} }
  /\ dict \in { d \in Dicts(opts.settings) : remaining(d) > 0 }
  /\ offset \in 0..(Min(remaining(dict), MAX_AHEAD_CHECK) - 1)
  /\ input = <<>> /\ rdr = None /\ pass = None /\ maps = None
  /\ wtr = <<>> /\ enc_result = NotStarted /\ pc = "find" /\ artifact = None
  /\ log = None /\ sample = None /\ move_back = None
  /\ DecIdle /\ TreeIdle

(* lzss_algo.find(dict.offset_csr(offset), settings, log) *)
Find ==
  /\ pc = "find"
  /\ ret' = find(opts.backend, offset_csr(dict, offset), opts.settings)
  /\ pc' = "found"
  /\ UNCHANGED <<opts, input, rdr, dict, pass, maps, wtr, enc_result, artifact, log>>
  /\ UNCHANGED <<src, fuel, info, output, dec_result, last, dlog>>
  /\ UNCHANGED <<treeVars, twoVars>>

NextFind == Find

SpecFind == InitFind /\ [][NextFind]_vars

-----------------------------------------------------------------------------
(* Properties of encode, decode and re-encode (Spec) *)

(* no tree text was given to the EncoderBuilder *)
BuiltTrees == opts.offsets = None /\ opts.lengths = None

(* the first encode of a behaviour, before the re-encode of its output *)
FirstEncode == artifact = None

DecodeEnded == dec_result.kind \notin {"None", "NotStarted", "Running"}

HasBackRef(buf) == \E i \in 1..Len(buf) : buf[i].kind # "Uncoded"

(* C1: with encoder-built trees, for every input, method and match finder, *)
(* encode succeeds and decoding its result ends with exactly the input.    *)
C1_RoundTrip ==
  (FirstEncode /\ BuiltTrees) =>
     /\ pc = "done" => enc_result.kind = "Ok"
     /\ DecodeEnded => dec_result = Ok(input)

C1_Witness ==
  /\ FirstEncode /\ BuiltTrees
  /\ opts.method = "TwoSample" /\ opts.backend = "KmpAhead"
  /\ input = <<65, 66, 67, 88, 66, 67, 68, 69, 89, 65, 66, 67, 68, 69>>
  /\ dec_result = Ok(input)
  /\ HasBackRef(pass.buf)

(* C2: when the decoded bytes of an artifact are encoded again with the    *)
(* artifact's method, the Brute finder and the artifact's two trees as     *)
(* rendered text, the encode succeeds and yields exactly the artifact.     *)
C2_TreePreserving ==
  (artifact.kind = "Some" /\ pc = "done") => enc_result = Ok(artifact.val)

RECURSIVE Literals(_)
Literals(bytes) ==
  IF bytes = <<>> THEN <<>>
  ELSE write_bit(FALSE) \o write(8, Head(bytes)) \o Literals(Tail(bytes))

RECURSIVE PositionOf(_, _)
PositionOf(buf, i) ==
  IF i <= 1 THEN 0 ELSE PositionOf(buf, i - 1) + LzssByte_size(buf[i - 1])

(* the offset of a back-reference token, and its components as written *)
OffsetOf(t) ==
  IF t.kind = "Encoded" THEN t.offset
  ELSE IF t.sample.kind = "One" THEN two_sample_move_back(t.sample.offset, 0)
  ELSE two_sample_move_back(t.sample.first, t.sample.second)

OffsetParts(t) ==
  IF t.kind = "Encoded" THEN <<t.offset>>
  ELSE IF t.sample.kind = "One" THEN <<t.sample.offset>>
  ELSE <<t.sample.first, t.sample.second>>

(* how many of the values in parts are w bits wide *)
WideIn(parts, w) ==
  Cardinality({k \in 1..Len(parts) : count_needed_bits(parts[k]) = w})

(* the number of offset components, and of lengths, of width w in buf *)
RECURSIVE OffsetsOfWidth(_, _)
OffsetsOfWidth(buf, w) ==
  IF buf = <<>> THEN 0
  ELSE OffsetsOfWidth(Tail(buf), w)
         + (IF Head(buf).kind = "Uncoded" THEN 0 ELSE WideIn(OffsetParts(Head(buf)), w))

RECURSIVE LengthsOfWidth(_, _)
LengthsOfWidth(buf, w) ==
  IF buf = <<>> THEN 0
  ELSE LengthsOfWidth(Tail(buf), w)
         + (IF Head(buf).kind = "Uncoded" THEN 0 ELSE WideIn(<<Head(buf).size>>, w))

(* C15: every back-reference in the pass, emitted at output position p,    *)
(* has 1 <= offset <= min(p, window_size) and max_uncoded + 1 <= length <= *)
(* max_encoded, so its offset fits offset_bits and its length fits         *)
(* length_bits; and the width of its length and of each offset component   *)
(* written is a key of its histogram, counted there as often as a          *)
(* component of that width has been emitted so far.                        *)
C15_BackRefBounds ==
  (pass # None /\ pc \in {"lzss", "write", "done"}) =>
    \A i \in 1..Len(pass.buf) :
      pass.buf[i].kind # "Uncoded" =>
        LET t == pass.buf[i]
            p == PositionOf(pass.buf, i)
        IN /\ 1 <= OffsetOf(t)
           /\ OffsetOf(t) <= Min(p, window_size(opts.settings))
           /\ opts.settings.max_uncoded + 1 <= t.size
           /\ t.size <= max_encoded(opts.settings)
           /\ count_needed_bits(OffsetOf(t)) <= opts.settings.offset_bits
           /\ count_needed_bits(t.size) <= opts.settings.length_bits
           /\ count_needed_bits(t.size) \in DOMAIN pass.size_bitfreq
           /\ pass.size_bitfreq[count_needed_bits(t.size)]
                = LengthsOfWidth(pass.buf, count_needed_bits(t.size))
           /\ \A k \in 1..Len(OffsetParts(t)) :
                LET w == count_needed_bits(OffsetParts(t)[k]) IN
                /\ w \in DOMAIN pass.moveback_bitfreq
                /\ pass.moveback_bitfreq[w] = OffsetsOfWidth(pass.buf, w)

(* a finished pass with a back-reference at position 7 whose offset 7 is   *)
(* the whole of a 3-bit window, counted in the length histogram            *)
C15_Witness ==
  /\ pass # None /\ pc = "done" /\ opts.settings = SmallSettings
  /\ \E i \in 1..Len(pass.buf) :
       /\ pass.buf[i].kind # "Uncoded"
       /\ OffsetOf(pass.buf[i]) = window_size(opts.settings)
       /\ PositionOf(pass.buf, i) = window_size(opts.settings)
  /\ \E w \in DOMAIN pass.size_bitfreq : pass.size_bitfreq[w] >= 1

(* the example of the module documentation of format.rs: "YAAAAAAAAAAAAAA" *)
(* encoded with one sample, the Brute finder and "(1, (4, 7))" for both    *)
(* trees                                                                   *)
DocExample ==
  /\ FirstEncode /\ pc = "done"
  /\ input = <<89>> \o [i \in 1..14 |-> 65]
  /\ opts = [method |-> "OneSample", backend |-> "Brute",
             settings |-> LzssSettings_default,
             offsets |-> Some(Text_1_4_7), lengths |-> Some(Text_1_4_7)]

(* the bits of the artifact after the header and the two trees *)
BodyBits == SubSeq(wtr, 72 + Len(VpkTree_write(maps.offsets.tree))
                           + Len(VpkTree_write(maps.lengths.tree)) + 1, Len(wtr))

(* the body is bits, then zeros up to the next byte boundary *)
BodyIs(bits) ==
  /\ Len(wtr) % 8 = 0
  /\ Len(BodyBits) \in Len(bits)..(Len(bits) + 7)
  /\ SubSeq(BodyBits, 1, Len(bits)) = bits
  /\ \A i \in (Len(bits) + 1)..Len(BodyBits) : BodyBits[i] = 0

TooSmall(user, freq) ==
  /\ user.kind = "Some"
  /\ MapTree_from_str(user.val).kind = "Ok"
  /\ \E k \in DOMAIN freq :
       \A j \in DOMAIN MapTree_from_str(user.val).val.map : k > j

(* C10: when a user tree is too small for an observed bit size, encode     *)
(* returns Err(BadUserTree(..)) and nothing has been written.              *)
C10_FillFailure ==
  (/\ pc = "done"
   /\ \/ TooSmall(opts.offsets, pass.moveback_bitfreq)
      \/ TooSmall(opts.lengths, pass.size_bitfreq)) =>
     /\ enc_result.kind = "Err"
     /\ enc_result.err.kind = "BadUserTree"
     /\ wtr = <<>>

-----------------------------------------------------------------------------
(* Properties of the scan of look_for_nearby_best_match (Spec) *)

(* one iteration of the loop of compress_rdr is taken from this state *)
AtScan == pc = "lzss" /\ remaining(dict) > 0

(* what the match finder returns at skip distance s from the cursor *)
FoundAt(s) == find(opts.backend, offset_csr(dict, s), opts.settings)

(* the position of the cursor in the source *)
Cursor(d) == d.total_read - (Len(d.buf) - d.csr)

(* the tokens a step appends to the pass *)
Emitted(before, after) == SubSeq(after.buf, Len(before.buf) + 1, Len(after.buf))

(* the statement of C19 as given: an emitted back-reference, found at the  *)
(* skip distance s, is strictly longer than min_match_length and than the  *)
(* match at every smaller skip                                             *)
C19_AcceptAsStated ==
  [][AtScan =>
       LET em == Emitted(pass, pass')
           s == Len(em) - 1
       IN em[Len(em)].kind # "Uncoded" =>
            /\ em[Len(em)].size > opts.settings.max_uncoded + 1
            /\ \A t \in 0..(s - 1) : FoundAt(t).val.size < em[Len(em)].size]_vars

(* C19: a match found at the skip distance s is accepted only if it is     *)
(* strictly longer than max_uncoded, that is at least min_match_length     *)
(* long, and strictly longer than the match accepted at every smaller      *)
(* skip.                                                                   *)
C19_Accept ==
  [][AtScan =>
       LET em == Emitted(pass, pass')
           s == Len(em) - 1
       IN em[Len(em)].kind # "Uncoded" =>
            /\ FoundAt(s) # None
            /\ em[Len(em)].size = FoundAt(s).val.size
            /\ em[Len(em)].size > opts.settings.max_uncoded
            /\ \A t \in 0..(s - 1) :
                  /\ FoundAt(t) # None
                  /\ FoundAt(t).val.size > opts.settings.max_uncoded
                  /\ FoundAt(t).val.size < em[Len(em)].size]_vars

(* the encode of "AAAA" under the default settings: the match of exactly   *)
(* min_match_length = 3 bytes is accepted                                  *)
C19_Witness ==
  /\ input = <<65, 65, 65, 65>> /\ opts.settings = LzssSettings_default
  /\ opts.backend = "Brute" /\ opts.method = "OneSample"
  /\ pass # None
  /\ pass.buf = <<LzssByte_Uncoded(65), LzssByte_Encoded(3, 1)>>

(* the match at skip t is accepted by the scan: it is there, longer than   *)
(* max_uncoded and strictly longer than the one accepted before it         *)
AcceptedAt(t) ==
  /\ FoundAt(t) # None
  /\ FoundAt(t).val.size > opts.settings.max_uncoded
  /\ t > 0 => FoundAt(t).val.size > FoundAt(t - 1).val.size

(* the number of skips 0, 1, .. accepted before the first that is not, of  *)
(* at most 10 and of no more than the bytes that remain                    *)
AcceptedSkips ==
  LET limit == Min(remaining(dict), 10)
      runs == {k \in 0..limit : \A t \in 0..(k - 1) : AcceptedAt(t)}
  IN CHOOSE k \in runs : \A j \in runs : j <= k

-----------------------------------------------------------------------------
(* Properties of the encode from any reader (SpecRead) *)

(* the bytes the tokens of buf stand for: 1 per literal, the length per    *)
(* back-reference                                                          *)
TokenBytes(buf) == PositionOf(buf, Len(buf) + 1)

(* C16: a successful encode has consumed the source to its end, for any    *)
(* reader: the decompressed_size of the pass and of the written header is  *)
(* the number of source bytes, and the sizes of the emitted tokens sum to  *)
(* that number.                                                            *)
C16_ConsumesSource ==
  (pc = "done" /\ enc_result.kind = "Ok") =>
     /\ rdr.data = <<>>
     /\ pass.decompressed_size = Some(Len(input))
     /\ from_array(SubSeq(enc_result.val, 1, 9)) =
          Ok([size |-> Len(input), method |-> opts.method])
     /\ TokenBytes(pass.buf) = Len(input)

-----------------------------------------------------------------------------
(* Properties of the match finders (SpecFind) *)

(* the buffers the finder was called on *)
FindBufs == offset_csr(dict, offset)

(* the first k bytes of full[i..] and of ahead are the same *)
Agree(b, i, k) ==
  /\ i + k <= Len(b.full) /\ k <= Len(b.ahead)
  /\ \A j \in 1..k : b.full[i + j] = b.ahead[j]

(* the length of the common prefix of full[i..] and ahead *)
PrefixAt(b, i) ==
  CHOOSE k \in 0..Len(b.ahead) : Agree(b, i, k) /\ ~Agree(b, i, k + 1)

(* the start indices of behind *)
Starts(b) == 0..(Len(b.behind) - 1)

(* the longest match over the start indices, capped at max_match_length *)
LongestAt(b, settings) ==
  LET lens == {Min(PrefixAt(b, i), max_encoded(settings)) : i \in Starts(b)}
  IN CHOOSE k \in lens : \A l \in lens : l <= k

(* the match of maximal length that is closest to the cursor *)
ClosestLongest(b, settings) ==
  LET k == LongestAt(b, settings)
      at == {i \in Starts(b) : Min(PrefixAt(b, i), max_encoded(settings)) = k}
  IN MoveBack_new(k, Len(b.behind) - (CHOOSE i \in at : \A j \in at : j <= i))

(* C17: brute_find_match returns None exactly when no start index of       *)
(* behind has a common prefix of full[i..] and ahead of at least           *)
(* min_match_length bytes; otherwise it returns the maximal length, capped *)
(* at max_match_length, at the smallest offset that has it.                *)
C17_BruteLongestClosest ==
  (pc = "found" /\ opts.backend = "Brute") =>
     LET b == FindBufs IN
     IF \A i \in Starts(b) : PrefixAt(b, i) < opts.settings.max_uncoded + 1
     THEN ret = None
     ELSE ret = Some(ClosestLongest(b, opts.settings))

(* two starts with the longest match, so that the tie decides, and a       *)
(* prefix longer than max_match_length, so that the cap decides            *)
C17_Witness ==
  /\ pc = "found" /\ opts.backend = "Brute" /\ opts.settings = SmallSettings
  /\ ret = Some(MoveBack_new(3, 1))
  /\ offset = 1
  /\ Len(FindBufs.behind) = 2
  /\ PrefixAt(FindBufs, 0) = 4
  /\ PrefixAt(FindBufs, 1) = 4

(* C18: find_kmp without check_rl returns the maximal length over the      *)
(* start indices of behind, capped at max_match_length, at the smallest    *)
(* offset that has it; so it returns what Brute returns whenever Brute     *)
(* returns a match.                                                        *)
C18_KmpAsBrute ==
  (pc = "found" /\ opts.backend = "Kmp") =>
     LET b == FindBufs IN
     /\ ret # None => ret = Some(ClosestLongest(b, opts.settings))
     /\ brute_find_match(b, opts.settings) # None =>
          ret = brute_find_match(b, opts.settings)

-----------------------------------------------------------------------------
(* Properties of single-leaf trees (SpecLookup) *)

SingleLeaf == Len(tree) = 1

-----------------------------------------------------------------------------
(* Properties of header() and trees() (SpecQuery) *)

(* C12: a call of header() or trees() before decode() that returns Ok      *)
(* (a) on its first success has read exactly the nine header bytes and the *)
(* two trees, and nothing of the body; (b) once the header and trees are   *)
(* kept, reads nothing more and returns the kept header or the text of the *)
(* kept trees; (c) leaves decode() with the outcome it had before the      *)
(* call, so that decode() after any calls equals decode() on a fresh       *)
(* Decoder.                                                                *)
C12_QueryOnce ==
  [][ (dec_result = NotStarted /\ dec_result' = NotStarted /\ ret'.kind = "Ok") =>
        /\ info = None =>
              /\ info'.kind = "Some"
              /\ src = VpkHeader_write(info'.val.hdr)
                          \o VpkTree_write(info'.val.offsets)
                          \o VpkTree_write(info'.val.lengths) \o src'
        /\ info # None => info' = info /\ src' = src
        /\ ret' \in {Ok(info'.val.hdr), Ok(TreeInfo_from(info'.val))}
        /\ decode_start(src', info', dlog) = decode_start(src, info, dlog)
    ]_vars

C12_Witness ==
  /\ ret = Ok([offsets |-> <<"2">>, lengths |-> <<"2">>])
  /\ dec_result = Ok(<<65, 65, 65, 65>>)

-----------------------------------------------------------------------------
(* Properties of logging (SpecLog) *)

(* C11: every step of encode and of decode leaves the same state and the   *)
(* same result, artifact or error, as that step without a log sink, so the *)
(* results of encode and decode do not depend on the sink attached.        *)
C11_LogNonInterference ==
  [][ /\ (pc = "lzss" /\ remaining(dict) > 0) =>
           \E it \in {lzss_step(dict, rdr, pass, opts.settings, opts.method,
                                opts.backend, None)} :
              /\ dict' = it.dict /\ rdr' = it.rdr /\ pass' = it.pass
              /\ pc' = pc /\ enc_result' = enc_result
      /\ (pc = "lzss" /\ remaining(dict) = 0) =>
           \E r \in EncodedMaps_new(opts.offsets, opts.lengths, pass') :
              IF r.kind = "Ok"
              THEN maps' = r.val /\ pc' = "write" /\ enc_result' = enc_result
              ELSE pc' = "done" /\ enc_result' = r
      /\ dec_result = NotStarted =>
           \E st \in {decode_start(src, info, None)} :
              /\ dec_result' = st.res /\ src' = st.src /\ info' = st.info
      /\ dec_result = Running =>
           \E overflow_checks \in BOOLEAN :
              \E st \in {decode_step(info.val, src, output, overflow_checks, None)} :
                 /\ dec_result' = st.res /\ src' = st.src /\ output' = st.output
    ]_vars

-----------------------------------------------------------------------------
(* Properties of the two-sample transform (SpecTwoSample) *)

(* C4: for every offset >= 1 the split is (r - 1, q) when r # 0 and q      *)
(* alone when r = 0, with v = offset + 8, q = v / 4, r = v mod 4; a lone   *)
(* component is never below 3 and a first of two is always below 3; and    *)
(* the decoder's rule maps the components back to the offset.              *)
C4_TwoSampleRoundTrip ==
  /\ sample # None =>
       /\ sample.val = IF (offset + 8) % 4 = 0 THEN One((offset + 8) \div 4)
                       ELSE Two(((offset + 8) % 4) - 1, (offset + 8) \div 4)
       /\ sample.val.kind = "One" => sample.val.offset >= 3
       /\ sample.val.kind = "Two" => sample.val.first < 3
  /\ move_back # None => move_back = Some(offset)

C4_Witness ==
  /\ offset = 7 /\ sample = Some(Two(2, 3)) /\ move_back = Some(7)

-----------------------------------------------------------------------------
(* Properties of the tree text (SpecTree) *)

(* the code map of a flat tree: each leaf reached from the root gives its  *)
(* size the path as prefix code, a later leaf replacing an earlier one     *)
RECURSIVE CodeMapOf(_, _, _, _)
CodeMapOf(t, idx, prefix, map) ==
  IF t[idx + 1].kind = "Leaf"
  THEN insert(map, t[idx + 1].val, [bits |-> t[idx + 1].val, code |-> prefix])
  ELSE CodeMapOf(t, t[idx + 1].right, HuffCode_extend(prefix, 1),
                 CodeMapOf(t, t[idx + 1].left, HuffCode_extend(prefix, 0), map))

(* C3: parsing the text rendered for any in-memory tree, the empty tree    *)
(* included, succeeds and gives the code map of that tree.                 *)
C3_TextRoundTrip ==
  parsed # None =>
     /\ parsed.kind = "Ok"
     /\ parsed.val.map = IF tree = VpkTree_empty THEN EmptyMap
                         ELSE CodeMapOf(tree, Len(tree) - 1, HuffCode_new, EmptyMap)

-----------------------------------------------------------------------------
(* Properties of the decoder (SpecDecode) *)

HeaderBytes(bits) == BitsToBytes(SubSeq(bits, 1, 72))
AfterHeader(bits) == SubSeq(bits, 73, Len(bits))

(* C6: a first call on a stream of at least nine bytes fails with          *)
(* InvalidHeader(magic text) when the magic is text other than "vpk0",     *)
(* else with InvalidMethod(b) when the method byte b is not 0 or 1, else   *)
(* the header read is the big-endian size and the method; the magic is     *)
(* checked first, and after a header error exactly nine bytes have been    *)
(* read, no tree is kept and no output exists.                             *)
C6_HeaderValidation ==
  [][ (dec_result = NotStarted /\ info = None /\ Len(src) >= 72) =>
        LET arr == HeaderBytes(src)
            name == SubSeq(arr, 1, 4)
            stopped(e) == /\ dec_result' = Err(e)
                          /\ src' = AfterHeader(src)
                          /\ info' = None
                          /\ output' = <<>>
        IN IF IsUtf8(name) /\ name # Magic THEN stopped(InvalidHeader(name))
           ELSE IF name = Magic /\ arr[9] \notin {0, 1}
             THEN stopped(InvalidMethod(arr[9]))
           ELSE IF name = Magic
             THEN /\ dec_result'.kind = "Err" => dec_result'.err = Io
                  /\ info'.kind = "Some" =>
                       /\ info'.val.hdr.size = FromBits(SubSeq(src, 33, 64))
                       /\ info'.val.hdr.method =
                            (IF arr[9] = 0 THEN "OneSample" ELSE "TwoSample")
           ELSE dec_result' = Err(Utf8Error) ]_vars

C6_Witness ==
  /\ dec_result = Err(InvalidHeader(<<118, 112, 107, 49>>))
  /\ info = None /\ output = <<>>

(* C7: a back-reference whose offset exceeds the bytes produced so far ends *)
(* decode with BadLookBack(offset, bytes produced); its length is not read, *)
(* nothing is copied and no bytes are returned.                             *)
C7_BadLookBack ==
  (last.token = "Encoded" /\ UsizeGt(last.move_back, last.have)) =>
     /\ dec_result = Err(BadLookBack(last.move_back, last.have))
     /\ last.size = None
     /\ Len(output) = last.have

C7_Witness ==
  /\ dec_result = Err(BadLookBack(5, 3))
  /\ last.token = "Encoded" /\ last.move_back = 5 /\ Len(output) = 3

(* C8: a back-reference (length n, offset o) with 1 <= o <= bytes produced  *)
(* appends exactly n bytes, byte i of them being the byte o places before   *)
(* it, so the last o bytes repeat cyclically when n > o.                    *)
C8_OverlapCopy ==
  (/\ last.token = "Encoded" /\ last.size.kind = "Some"
   /\ last.move_back >= 1 /\ last.move_back <= last.have) =>
     LET n == last.size.val
         o == last.move_back
         have == last.have
     IN /\ Len(output) = have + n
        /\ \A i \in 1..n : output[have + i] = output[have - o + ((i - 1) % o) + 1]
        /\ dec_result.kind \in {"Running", "Ok"}

C8_Witness ==
  /\ dec_result = Ok(<<65, 65, 65, 65, 65, 65>>)
  /\ output = <<65, 65, 65, 65, 65, 65>>
  /\ info.val.hdr.size = 6
  /\ last = [token |-> "Encoded", move_back |-> 1, have |-> 1, size |-> Some(5)]

(* C9: a successful decode returns exactly decompressed_size bytes *)
C9_ExactSize ==
  dec_result.kind = "Ok" => Len(dec_result.val) = info.val.hdr.size

-----------------------------------------------------------------------------
(* Tree decoding as a stack machine *)

StrictlyEarlier(entries) ==
  \A i \in 1..Len(entries) :
     entries[i].kind = "Node" =>
       entries[i].left < i - 1 /\ entries[i].right < i - 1

RECURSIVE ReachFrom(_, _)
ReachFrom(t, idx) ==
  {idx} \cup (IF t[idx + 1].kind = "Node"
              THEN ReachFrom(t, t[idx + 1].left) \cup ReachFrom(t, t[idx + 1].right)
              ELSE {})

(* C21: in every pass of the loop of from_bitreader the indices of each    *)
(* Node point at strictly earlier entries; the loop ends with a tree       *)
(* exactly when the bit read at the start of a pass is 1 while the stack   *)
(* holds fewer than two indices; that bit is the last one consumed, and    *)
(* the stack is then empty with an empty array, or holds only the index of *)
(* the last entry, from which every entry is reachable.                    *)
C21_StackMachine ==
  [][TreeReadStep =>
       /\ StrictlyEarlier(tree'.entries)
       /\ parsed'.kind = "Ok" <=> (src # <<>> /\ src[1] = 1 /\ Len(tree.buf) < 2)
       /\ parsed'.kind = "Ok" =>
            /\ src' = Tail(src)
            /\ parsed'.val = tree.entries
            /\ VpkTree_from_bitreader(input) = Got(tree.entries, src')
            /\ \/ tree.buf = <<>> /\ tree.entries = <<>>
               \/ /\ tree.buf = <<Len(tree.entries) - 1>>
                  /\ ReachFrom(tree.entries, Len(tree.entries) - 1)
                       = 0..(Len(tree.entries) - 1)]_vars

C21_Witness ==
  /\ pc = "tree"
  /\ parsed = Ok(<<Leaf(1), Leaf(3), Node(0, 1)>>)
  /\ tree.buf = <<2>>
  /\ src # <<>>

-----------------------------------------------------------------------------
(* The written form of a tree *)

(* the records of the sub-tree at idx, children before their node *)
RECURSIVE PostOrder(_, _)
PostOrder(t, idx) ==
  IF t[idx + 1].kind = "Leaf" THEN <<0>> \o ToBits(8, t[idx + 1].val)
  ELSE PostOrder(t, t[idx + 1].left) \o PostOrder(t, t[idx + 1].right) \o <<1>>

(* C22: a tree of the builder, of tree text or of a decoded stream is      *)
(* written as 0 and the 8-bit payload per leaf and 1 per node in           *)
(* post-order, then one 1 (a single 1 for the empty tree); reading the     *)
(* written bits back gives an equal tree and leaves exactly the bits that  *)
(* follow them.                                                            *)
C22_WireRoundTrip ==
  /\ pc \in {"written", "read"} =>
       /\ wtr = (IF tree = <<>> THEN <<>> ELSE PostOrder(tree, Len(tree) - 1)) \o <<1>>
       /\ src = wtr \o input
  /\ pc = "read" => parsed = Got(tree, input)

C22_Witness ==
  /\ pc = "read"
  /\ Len(tree) = 5
  /\ tree[3].kind = "Node"
  /\ input = <<1, 0, 1>>
  /\ parsed.kind = "Ok" /\ parsed.val = tree

-----------------------------------------------------------------------------
(* The leaf-pair rule of the builder *)

Lowest(heap, n) == n \in heap /\ \A m \in heap : n.freq <= m.freq

IsLeafLike(n) == n.kind \in {"Leaf", "CombinedLeaf"}

LesserOf(n) == IF n.kind = "CombinedLeaf" THEN n.lesser ELSE <<>>

SeqBag(q) == [x \in {q[i] : i \in DOMAIN q} |-> Cardinality({i \in DOMAIN q : q[i] = x})]

(* what replaces the popped nodes l and r by the stated rule *)
Replaces(l, r, n) ==
  LET h == IF l.size >= r.size THEN l ELSE r
      lo == IF l.size >= r.size THEN r ELSE l
  IN IF IsLeafLike(l) /\ IsLeafLike(r)
        /\ h.freq - (h.size - lo.size - 1) * lo.freq >= 0
     THEN /\ n.kind = "CombinedLeaf"
          /\ n.size = h.size
          /\ n.freq = h.freq + lo.freq
          /\ SeqBag(n.lesser) = SeqBag(<<lo.size>> \o LesserOf(h) \o LesserOf(lo))
     ELSE /\ n.kind = "Node"
          /\ n.freq = l.freq + r.freq
          /\ {n.left, n.right} = {l, r}

(* C23: each pass of the builder's loop takes out two nodes of lowest      *)
(* frequency and puts in one: for two leaves or CombinedLeaves of widths   *)
(* hs >= ls and frequencies hf, lf with hf - (hs - ls - 1) * lf >= 0 a     *)
(* CombinedLeaf of size hs and frequency hf + lf whose lesser sizes are ls *)
(* and those of both, otherwise a Node whose frequency is the sum; the     *)
(* loop runs until one node is left, which is the root.                    *)
C23_LeafPairRule ==
  [][/\ HeapStep =>
          \E l \in tree : \E r \in tree \ {l} :
             /\ Lowest(tree, l) /\ Lowest(tree \ {l}, r)
             /\ \E n \in tree' :
                  /\ tree' = (tree \ {l, r}) \cup {n}
                  /\ Cardinality(tree') = Cardinality(tree) - 1
                  /\ Replaces(l, r, n)
     /\ HeapDone =>
          /\ ~ENABLED HeapStep
          /\ tree = {} => parsed' = Some(None)
          /\ tree # {} => Cardinality(tree) = 1 /\ parsed'.val.val \in tree
          /\ parsed'.val \in from_found_codes(ret.val)]_vars

C23_Witness ==
  /\ pc = "built"
  /\ parsed.val.kind = "Some"
  /\ parsed.val.val.kind = "Node"
  /\ parsed.val.val.right.kind = "CombinedLeaf"
  /\ Len(parsed.val.val.right.lesser) = 2

-----------------------------------------------------------------------------
(* The code map against the written tree *)

(* the entry a walk from idx along bits (0 left, 1 right) ends at *)
RECURSIVE WalkTo(_, _, _)
WalkTo(t, idx, bits) ==
  IF bits = <<>> \/ t[idx + 1].kind = "Leaf" THEN [entry |-> t[idx + 1], left |-> bits]
  ELSE WalkTo(t, IF Head(bits) = 1 THEN t[idx + 1].right ELSE t[idx + 1].left,
              Tail(bits))

(* the path to every leaf *)
RECURSIVE LeafPaths(_, _, _)
LeafPaths(t, idx, path) ==
  IF t[idx + 1].kind = "Leaf" THEN {path}
  ELSE LeafPaths(t, t[idx + 1].left, Append(path, 0))
         \cup LeafPaths(t, t[idx + 1].right, Append(path, 1))

IsPrefix(a, b) == Len(a) <= Len(b) /\ SubSeq(b, 1, Len(a)) = a

CodeBits(e) == ToBits(e.code.size, e.code.code)

(* C24: for a tree built of a histogram every counted width w has an entry *)
(* (p, code) in the code map with p >= w; the walk through the written     *)
(* tree from the root along the bits of code ends, with no bit left, at    *)
(* the Leaf of payload p; no leaf's path is a prefix of another's; and a   *)
(* value written as code and p payload bits is read back as it was, up to  *)
(* the bits that follow it.                                                *)
C24_CodeMapAgrees ==
  /\ pc \in {"code", "coded", "looked"}
  /\ \A w \in DOMAIN ret.val :
       /\ w \in DOMAIN maps.map
       /\ maps.map[w].bits >= w
       /\ WalkTo(tree, Len(tree) - 1, CodeBits(maps.map[w]))
            = [entry |-> Leaf(maps.map[w].bits), left |-> <<>>]
  /\ tree # <<>> =>
       \A a, b \in LeafPaths(tree, Len(tree) - 1, <<>>) : a # b => ~IsPrefix(a, b)
  /\ pc \in {"coded", "looked"} =>
       src = CodeBits(maps.map[count_needed_bits(offset)])
               \o ToBits(maps.map[count_needed_bits(offset)].bits, offset) \o input
  /\ pc = "looked" => parsed = Got(offset, input)

C24_Witness ==
  /\ pc = "looked"
  /\ parsed = Got(offset, input)
  /\ input # <<>>
  /\ count_needed_bits(offset) < maps.map[count_needed_bits(offset)].bits
  /\ maps.map[count_needed_bits(offset)].code.size >= 2

-----------------------------------------------------------------------------
(* Fill-missing of a user tree *)

LeafSizes(t) == {t[i].val : i \in {j \in DOMAIN t : t[j].kind = "Leaf"}}

(* the smallest leaf size strictly greater than w *)
NextLeaf(t, w) ==
  CHOOSE g \in LeafSizes(t) : g > w /\ \A l \in LeafSizes(t) : l > w => g <= l

(* C25: when no observed width exceeds the largest leaf of the user tree,  *)
(* the fill succeeds; an observed width that is a leaf keeps its own       *)
(* (width, code); an observed width that is no leaf gets the size and code *)
(* of the smallest leaf strictly greater than it; the leaves not observed  *)
(* and the written tree are unchanged; and all this holds whatever the     *)
(* order in which the widths are visited.                                  *)
C25_FillMissing ==
  (pc = "filled" /\ \A w \in DOMAIN ret.val : \E l \in LeafSizes(tree) : w <= l) =>
    /\ parsed.kind = "Ok"
    /\ parsed.val.tree = tree
    /\ DOMAIN parsed.val.map = LeafSizes(tree) \cup DOMAIN ret.val
    /\ \A l \in LeafSizes(tree) :
         /\ parsed.val.map[l] = maps.map[l]
         /\ maps.map[l].bits = l
         /\ WalkTo(tree, Len(tree) - 1, CodeBits(maps.map[l]))
              = [entry |-> Leaf(l), left |-> <<>>]
    /\ \A w \in DOMAIN ret.val \ LeafSizes(tree) :
         parsed.val.map[w] = maps.map[NextLeaf(tree, w)]

C25_Witness ==
  /\ pc = "filled"
  /\ text = Some(Text_1_4_7)
  /\ DOMAIN ret.val = {0, 1, 2, 4, 7}
  /\ parsed.kind = "Ok"
  /\ parsed.val.map[0].bits = 1
  /\ parsed.val.map[2].bits = 4

-----------------------------------------------------------------------------
(* The order of the parts of an artifact *)

(* a value as its code and its payload *)
FieldOf(v, mt) ==
  CodeBits(mt.map[count_needed_bits(v)]) \o ToBits(mt.map[count_needed_bits(v)].bits, v)

RecordOf(tok, ms) ==
  CASE tok.kind = "Uncoded" -> <<0>> \o ToBits(8, tok.byte)
    [] tok.kind = "Encoded" ->
         <<1>> \o FieldOf(tok.offset, ms.offsets) \o FieldOf(tok.size, ms.lengths)
    [] tok.kind = "EncTwoSample" /\ tok.sample.kind = "One" ->
         <<1>> \o FieldOf(tok.sample.offset, ms.offsets) \o FieldOf(tok.size, ms.lengths)
    [] tok.kind = "EncTwoSample" /\ tok.sample.kind = "Two" ->
         <<1>> \o FieldOf(tok.sample.first, ms.offsets)
               \o FieldOf(tok.sample.second, ms.offsets)
               \o FieldOf(tok.size, ms.lengths)

TreeWire(t) == (IF t = <<>> THEN <<>> ELSE PostOrder(t, Len(t) - 1)) \o <<1>>

WireOf(bytes, method, ms, buf) ==
  BytesToBits(<<118, 112, 107, 48>>) \o ToBits(32, Len(bytes))
    \o ToBits(8, IF method = "OneSample" THEN 0 ELSE 1)
    \o TreeWire(ms.offsets.tree) \o TreeWire(ms.lengths.tree)
    \o Flat([i \in 1..Len(buf) |-> RecordOf(buf[i], ms)])

(* C26: the artifact of a successful encode is the header (vpk0, the size  *)
(* in 32 bits big-endian, the method byte), the offset tree, the length    *)
(* tree, and one record per token in the order of the pass (0 and the byte *)
(* for a literal; 1, the offset component or the first (below 3) then the  *)
(* second component, then the length for a back-reference), followed by    *)
(* fewer than eight zero bits up to a byte boundary and nothing else.      *)
C26_WireOrder ==
  (FirstEncode /\ pc = "done" /\ enc_result.kind = "Ok") =>
    /\ Len(wtr) % 8 = 0
    /\ enc_result.val = BitsToBytes(wtr)
    /\ \E pad \in 0..7 :
         wtr = WireOf(input, opts.method, maps, pass.buf) \o [i \in 1..pad |-> 0]
    /\ \A i \in 1..Len(pass.buf) :
         (pass.buf[i].kind = "EncTwoSample" /\ pass.buf[i].sample.kind = "Two")
           => pass.buf[i].sample.first < 3

C26_Witness ==
  /\ FirstEncode /\ pc = "done" /\ enc_result.kind = "Ok"
  /\ opts.method = "TwoSample"
  /\ Len(WireOf(input, opts.method, maps, pass.buf)) % 8 # 0
  /\ \E i \in 1..(Len(pass.buf) - 1) :
       /\ pass.buf[i].kind = "EncTwoSample" /\ pass.buf[i].sample.kind = "Two"
       /\ pass.buf[i + 1].kind = "Uncoded"

-----------------------------------------------------------------------------
(* The sliding dictionary *)

AheadOfCursor(d) == Len(d.buf) - d.csr

DictBounds(d, r, settings) ==
  /\ d.csr <= window_size(settings)
  /\ AheadOfCursor(d) <= max_encoded(settings) + 10
  /\ Len(d.buf) <= window_size(settings) + max_encoded(settings) + 10
  /\ r.data # <<>> => AheadOfCursor(d) = max_encoded(settings) + 10
  /\ d.total_read = Len(input) - Len(r.data)

(* the step moved the cursor by n: the buffer lost only the bytes at its   *)
(* front that the cursor would be beyond the window, and gained at its     *)
(* back the next bytes of the reader                                       *)
DropsFront(n) ==
  \E excess \in {Max(dict.csr + n - window_size(opts.settings), 0)} :
     /\ dict'.csr = dict.csr + n - excess
     /\ \E k \in 0..n :
          /\ dict'.buf = SubSeq(dict.buf, excess + 1, Len(dict.buf))
                           \o SubSeq(rdr.data, 1, k)
          /\ rdr'.data = SubSeq(rdr.data, k + 1, Len(rdr.data))

(* C27: after SlidingDict::new and after every advance_by of the pass the  *)
(* cursor is at most window_size, at most max_match_length + 10 bytes lie  *)
(* at or after the cursor, the buffer holds at most window_size +          *)
(* max_match_length + 10 bytes, bytes leave only at the front and only as  *)
(* far as the cursor would exceed the window, max_match_length + 10 bytes  *)
(* lie at or after the cursor while the reader has more data, and          *)
(* total_read is the number of bytes taken from the reader.                *)
C27_DictInvariant ==
  [][/\ EncodeStart => DictBounds(dict', rdr', opts.settings)
     /\ LzssStep =>
          /\ DictBounds(dict', rdr', opts.settings)
          /\ DropsFront(Cursor(dict') - Cursor(dict))]_vars

-----------------------------------------------------------------------------
(* KmpLookAhead against Brute *)

(* a result below the minimum match length counts as no match *)
Discarded(r, settings) ==
  IF r # None /\ r.val.size <= settings.max_uncoded THEN None ELSE r

C28_SameStep ==
  [][(LzssStep /\ opts.backend = "KmpAhead") =>
       \E it \in {compress_iter(dict, rdr, pass, opts.settings, opts.method, "Brute")} :
          /\ pass' = it.pass
          /\ dict' = it.dict
          /\ rdr' = it.rdr]_vars

-----------------------------------------------------------------------------
(* The decoder on arbitrary artifacts *)

(* C29: decode never aborts, neither on a read of output at or beyond its  *)
(* length nor on an underflow of (u + 1 + 4v) - 8 or 4u - 8; and after a   *)
(* back-reference whose offset is below 1, with a length above 0 or with   *)
(* the length not read, decode has returned an error.                      *)
C29_DecoderSafety ==
  /\ dec_result.kind # "Panic"
  /\ (/\ last.token = "Encoded"
      /\ last.move_back < 1
      /\ (last.size = None \/ last.size.val > 0))
       => dec_result.kind = "Err"

-----------------------------------------------------------------------------
(* SpecTerm: each of the three loops run to its end.  The decoder runs on  *)
(* the artifacts of SpecDecode, VpkTree::from_bitreader on the streams of  *)
(* SpecTreeRead and the encoder on the readers of SpecRead; a loop that    *)
(* can run another pass does so (the program is sequential).               *)

InitTerm == InitDecode \/ InitTreeRead \/ InitRead

DecodeLoop == pc = "idle" /\ NextDecode

TreeLoop == pc = "tree" /\ NextTreeRead

LzssLoop == pc \notin {"idle", "tree"} /\ NextRead

NextTerm == DecodeLoop \/ TreeLoop \/ LzssLoop

(* the call has returned: a value, an error or a panic *)
Returned ==
  CASE pc = "idle" -> dec_result.kind \in {"Ok", "Err", "Panic"}
    [] pc = "tree" -> parsed # None
    [] OTHER -> pc = "done"

(* Weak fairness of NextTerm.  WF_vars(NextTerm) is                        *)
(*   []<>(~ENABLED <<NextTerm>>_vars) \/ []<><<NextTerm>>_vars;            *)
(* a pass is enabled exactly when the call has not returned, and under     *)
(* [][NextTerm]_vars every step that changes vars is a step of NextTerm.   *)
Fairness == []<>Returned \/ []<><<TRUE>>_vars

SpecTerm == InitTerm /\ [][NextTerm]_vars /\ Fairness

(* no step is taken once the call has returned *)
ReturnedIsFinal == [][~Returned]_vars

-----------------------------------------------------------------------------
(* C30 *)

(* a is what is left of b after at least one bit was taken from its front *)
ProperSuffix(a, b) ==
  /\ Len(a) < Len(b)
  /\ a = SubSeq(b, Len(b) - Len(a) + 1, Len(b))

(* a pass of the loop of do_decode after which the call has not failed: it *)
(* took bits from what the reader held and what it yielded in that pass    *)
DecodePassConsumes ==
  (pc = "idle" /\ dec_result = Running /\ dec_result'.kind \in {"Running", "Ok"})
    => IF fuel' = fuel THEN ProperSuffix(src', src)
       ELSE \E chunk \in TokenChunks(info.val) : ProperSuffix(src', src \o chunk)

(* a pass of the loop of from_bitreader that did not fail *)
TreePassConsumes ==
  (pc = "tree" /\ parsed = None /\ (parsed' = None \/ parsed'.kind = "Ok"))
    => ProperSuffix(src', src)

(* a pass of the loop of compress_rdr that did not fail *)
LzssPassAdvances ==
  (pc = "lzss" /\ pc' = "lzss") => Cursor(dict') >= Cursor(dict) + 1

(* C30: every pass of the decode loop and of the tree-reading loop that    *)
(* does not fail consumes at least one bit of the input, every pass of the *)
(* LZSS loop moves the cursor forward by at least one byte, and each of    *)
(* the three calls returns; a back-reference of length 0 that leaves the   *)
(* output as it was is one such pass, and the decode it is part of ends.   *)
C30_Termination ==
  /\ [][DecodePassConsumes /\ TreePassConsumes /\ LzssPassAdvances]_vars
  /\ <>[]Returned

(* a back-reference of length 0 was decoded: the output is as long as it   *)
(* was before the pass and shorter than the header says, the loop is still *)
(* running, and the reader has nothing more to yield                       *)
C30_Witness ==
  /\ pc = "idle"
  /\ dec_result = Running
  /\ last.token = "Encoded"
  /\ last.size = Some(0)
  /\ last.have = Len(output)
  /\ src = <<>>
  /\ fuel = 0

====
